---- MODULE Spec2Model ----
(***************************************************************************)
(* Model of the quote cache / top-movers pipeline of ai-term-project:      *)
(*   api/services/stock_api_service.py   StockAPIService                   *)
(*   api/views/stock_details_view.py     StockDetailsView                  *)
(*                                                                         *)
(* Conventions.                                                            *)
(*   - Decimal values (prices, percentages) are integers in hundredths     *)
(*     ("cents"); the `change` carried by a movers entry is kept in        *)
(*     millionths, the precision at which (pct / 100) * price is exact.    *)
(*   - Timestamps and durations are integers in milliseconds.              *)
(*   - A Python value that may be None is a sequence of length 0 or 1:     *)
(*     None is << >>, a present value v is <<v>>.                          *)
(*   - Tickers are the positions 1..NPopular of popular_tickers.           *)
(***************************************************************************)
EXTENDS Integers, Sequences, FiniteSets, TLC

(***************************************************************************)
(* Bounds of the exploration.                                              *)
(***************************************************************************)
\* length of popular_tickers in the model (30 in the source)
NPopular == 12
\* largest `limit` a request is made with
MaxLimit == 4
\* longest upstream price series
MaxSeries == 3
\* the day number of the request
HistoryToday == 10
\* longest list of articles a news provider returns
MaxArticles == 2
\* most words of a classified text
MaxWords == 3

(***************************************************************************)
(* Program constants.                                                      *)
(***************************************************************************)
\* timedelta(hours=1) / QUOTE_CACHE_DURATION, in ms
CacheDurationMs == 3600000
\* delay_between_batches = 12 s, in ms
DelayBetweenBatchesMs == 12000
\* time.sleep(0.5), in ms
SmallDelayMs == 500
\* max_concurrent
MaxConcurrent == 5
\* the clock at which the modelled request starts
Clock0 == 10000000

None == << >>
Some(v) == <<v>>
IsNone(o) == o = << >>
Val(o) == o[1]

\* Python truthiness of an optional Decimal: None and 0 are falsy
Truthy(o) == o # << >> /\ o[1] # 0

Abs(x) == IF x < 0 THEN -x ELSE x
Min(a, b) == IF a < b THEN a ELSE b

(***************************************************************************)
(* Stock rows.  api/models.py is not part of the sources at hand; a row    *)
(* carries the fields the services read and write.                         *)
(***************************************************************************)
StockRow(price, change, updated) ==
  [current_price |-> price, change_in_day |-> change, updated_at |-> updated,
   volume |-> None, market_cap |-> None]

\* the same row with its volume and market_cap columns set
WithVolume(row, volume, market_cap) ==
  [row EXCEPT !.volume = volume, !.market_cap = market_cap]

\* the row get_or_create inserts for an unknown ticker
NewStockRow(clk) == StockRow(None, None, Some(clk))

(***************************************************************************)
(* FreshnessPolicy, as implemented twice.                                  *)
(***************************************************************************)
\* variant: a row whose age is exactly the window counts as stale
ShouldUpdateAtWindow(stock, now) ==
  \/ IsNone(stock.updated_at)
  \/ now - Val(stock.updated_at) >= CacheDurationMs
  \/ ~Truthy(stock.current_price)

\* StockDetailsView._should_update_stock_quote(stock, now)
ShouldUpdateStockQuote(stock, now) ==
  IF IsNone(stock.updated_at) THEN TRUE
  ELSE LET time_since_update == now - Val(stock.updated_at)
       IN IF time_since_update > CacheDurationMs THEN TRUE
          ELSE IF ~Truthy(stock.current_price) THEN TRUE
          ELSE FALSE

\* variant: the age of the row is not looked at
MoversFreshAnyAge(db_stock_dict, ticker, now) ==
  /\ ticker \in DOMAIN db_stock_dict
  /\ Truthy(db_stock_dict[ticker].current_price)
  /\ ~IsNone(db_stock_dict[ticker].change_in_day)

\* the inline test of get_top_movers: TRUE when the row is served from the database
MoversFresh(db_stock_dict, ticker, now) ==
  /\ ticker \in DOMAIN db_stock_dict
  /\ LET stock == db_stock_dict[ticker]
     IN /\ Truthy(stock.current_price)
        /\ ~IsNone(stock.change_in_day)
        /\ ~IsNone(stock.updated_at)
        /\ now - Val(stock.updated_at) < CacheDurationMs

(***************************************************************************)
(* Datetimes.  A datetime is its wall-clock reading (ms) and its tzinfo:   *)
(* None when naive, the UTC offset (ms) of its zone when aware.  Instants  *)
(* are ms on the UTC scale.  USE_TZ and TIME_ZONE come from the settings   *)
(* module; Django makes TIME_ZONE the local zone of the process.           *)
(***************************************************************************)
Datetime(wall, tzinfo) == [wall |-> wall, tzinfo |-> tzinfo]
Timedelta(ms) == [kind |-> "delta", ms |-> ms, exc |-> ""]
TypeError == [kind |-> "raise", ms |-> 0, exc |-> "TypeError"]

\* a - b: both naive, the difference of the readings; both aware, the elapsed
\* time; one of each, TypeError
Subtract(a, b) ==
  IF IsNone(a.tzinfo) # IsNone(b.tzinfo) THEN TypeError
  ELSE IF IsNone(a.tzinfo) THEN Timedelta(a.wall - b.wall)
  ELSE Timedelta((a.wall - Val(a.tzinfo)) - (b.wall - Val(b.tzinfo)))

\* dt.replace(tzinfo=None): the reading is kept, the zone dropped
ReplaceTzinfoNone(dt) == Datetime(dt.wall, None)

\* datetime.now(): naive, local time
DatetimeNow(instant, offset) == Datetime(instant + offset, None)

\* timezone.now(): aware UTC under USE_TZ, else naive local time
TimezoneNow(instant, tz_on, offset) ==
  IF tz_on THEN Datetime(instant, Some(0)) ELSE Datetime(instant + offset, None)

\* stock.updated_at as the ORM loads it: aware UTC under USE_TZ, else naive local
StoredDatetime(instant, tz_on, offset) ==
  IF tz_on THEN Datetime(instant, Some(0)) ELSE Datetime(instant + offset, None)

\* _should_update_stock_quote, lines 200-203
DetailsTimeSinceUpdate(updated_at, now_dt) ==
  IF ~IsNone(updated_at.tzinfo)
  THEN Subtract(now_dt, ReplaceTzinfoNone(updated_at))
  ELSE Subtract(now_dt, updated_at)

\* get_top_movers, line 244
MoversTimeSinceUpdate(updated_at, now_dt) == Subtract(now_dt, updated_at)

\* what lines 200-203 add to the elapsed time of a stored row, for the `now`
\* of line 56
DetailsSkew(tz_on, offset) ==
  DetailsTimeSinceUpdate(StoredDatetime(0, tz_on, offset), DatetimeNow(0, offset)).ms

(***************************************************************************)
(* QuoteProvider: the two upstream quote APIs and their normalisation.     *)
(* A result of a provider call is a quote or a raised exception.           *)
(***************************************************************************)
Raise(exc) == [kind |-> "raise", exc |-> exc]
Quote(price, change, pct) ==
  [kind |-> "quote", current_price |-> price, change |-> change, change_percent |-> pct,
   volume |-> Some(0), market_cap |-> None]

\* the quote dictionary with its 'volume' and 'market_cap' entries
QuoteWith(quote, volume, market_cap) ==
  [quote EXCEPT !.volume = volume, !.market_cap = market_cap]

\* Decimal(price_str) for the payload strings of the model, in hundredths
DecimalOf(price_str) ==
  CASE price_str = "0" -> 0
    [] price_str = "0.00" -> 0
    [] price_str = "-1.00" -> -100
    [] price_str = "150.00" -> 15000
    [] price_str = "50.00" -> 5000

\* a response of the Alpha Vantage GLOBAL_QUOTE endpoint: '05. price' as the
\* string sent, '08. previous close', '09. change' and '10. change percent' as
\* optional Decimals (None when the key is absent)
AVResponse(kind, price_str, prev, change, pct) ==
  [kind |-> kind, price_str |-> price_str, prev |-> prev, change |-> change, pct |-> pct,
   volume |-> None]

\* the same response carrying '06. volume' (an integer string, here its value)
AVWithVolume(resp, volume) == [resp EXCEPT !.volume = Some(volume)]

\* StockAPIService._get_alpha_vantage_quote
AlphaVantageQuote(resp) ==
  CASE resp.kind = "network" -> Raise("network")
    [] resp.kind = "badjson" -> Raise("data")
    [] resp.kind = "error_message" -> Raise("data")
    [] resp.kind = "note" -> Raise("data")
    [] resp.kind = "no_global_quote" -> Raise("data")
    [] resp.kind = "quote" ->
         IF resp.price_str = "" \/ resp.price_str = "0"
         THEN Raise("data")
         ELSE QuoteWith(Quote(DecimalOf(resp.price_str),
                              IF IsNone(resp.change) THEN 0 ELSE Val(resp.change),
                              IF IsNone(resp.pct) THEN 0 ELSE Val(resp.pct)),
                        IF IsNone(resp.volume) THEN Some(0) ELSE resp.volume,
                        None)

\* a response of the Yahoo Finance chart endpoint; price and prev are optional
YahooResponse(kind, price, prev) ==
  [kind |-> kind, price |-> price, prev |-> prev, has_volume |-> FALSE, volume |-> None,
   market_cap |-> None]

\* the same response whose meta carries 'regularMarketVolume' (null when None)
\* and 'marketCap'
YahooWithVolume(resp, volume, market_cap) ==
  [resp EXCEPT !.has_volume = TRUE, !.volume = volume, !.market_cap = market_cap]

\* change / previous_close * 100, quantised to the hundredths of the model
PercentOf(change, previous_close) ==
  IF change >= 0 THEN (change * 10000) \div previous_close
  ELSE -(((-change) * 10000) \div previous_close)

\* StockAPIService._get_yahoo_finance_quote
YahooFinanceQuote(resp) ==
  CASE resp.kind = "network" -> Raise("network")
    [] resp.kind = "badjson" -> Raise("data")
    [] resp.kind = "no_chart" -> Raise("data")
    [] resp.kind = "error" -> Raise("data")
    [] resp.kind = "meta" ->
         IF ~Truthy(resp.price)
         THEN Raise("data")
         ELSE LET current_price == Val(resp.price)
                  previous_close == IF IsNone(resp.prev) THEN current_price
                                    ELSE Val(resp.prev)
                  change == current_price - previous_close
                  change_percent == IF previous_close > 0
                                    THEN PercentOf(change, previous_close)
                                    ELSE 0
              IN QuoteWith(Quote(current_price, change, change_percent),
                           IF resp.has_volume THEN resp.volume ELSE Some(0),
                           resp.market_cap)

\* one upstream request as the request log records it
ProviderCall(provider, result) == [provider |-> provider, failed |-> result.kind = "raise"]

\* get_stock_quote asking the same provider again after a failure
GetStockQuoteRetried(alpha_vantage_key, up) ==
  LET provider == IF alpha_vantage_key # "demo" THEN "alpha_vantage" ELSE "yahoo"
      r == IF alpha_vantage_key # "demo" THEN AlphaVantageQuote(up.av)
           ELSE YahooFinanceQuote(up.yahoo)
  IN [result |-> r,
      calls |-> IF r.kind = "raise"
                THEN <<ProviderCall(provider, r), ProviderCall(provider, r)>>
                ELSE <<ProviderCall(provider, r)>>]

\* StockAPIService.get_stock_quote; up is what each upstream would answer.
\* result is the value returned or the exception re-raised, calls the upstream
\* requests issued, in order
GetStockQuote(alpha_vantage_key, up) ==
  IF alpha_vantage_key # "demo"
  THEN LET r == AlphaVantageQuote(up.av)
       IN [result |-> r, calls |-> <<ProviderCall("alpha_vantage", r)>>]
  ELSE LET r == YahooFinanceQuote(up.yahoo)
       IN [result |-> r, calls |-> <<ProviderCall("yahoo", r)>>]

(***************************************************************************)
(* get_top_movers: helpers.                                                *)
(***************************************************************************)
\* popular_tickers
PopularTickers == [k \in 1..NPopular |-> k]

\* variant: the whole list is checked whatever the limit
TickersToCheckAll(limit) == PopularTickers

\* popular_tickers[:limit * 3] if limit * 3 <= len(popular_tickers) else popular_tickers
TickersToCheck(limit) ==
  IF limit * 3 <= Len(PopularTickers)
  THEN SubSeq(PopularTickers, 1, limit * 3)
  ELSE PopularTickers

Mover(ticker, change, price) == [ticker |-> ticker, change |-> change, current_price |-> price]

\* the entry of the fresh path: absolute_change = (change_in_day / 100) * current_price
FreshMover(stock, ticker) ==
  Mover(ticker, Val(stock.change_in_day) * Val(stock.current_price), Val(stock.current_price))

\* the entry of the updated path: 'change': quote['change']
UpdatedMover(quote, ticker) == Mover(ticker, quote.change * 10000, quote.current_price)

\* the entries the except branch appends: the stale row of db_stock_dict, if usable
FallbackMovers(db_stock_dict, ticker) ==
  IF /\ ticker \in DOMAIN db_stock_dict
     /\ Truthy(db_stock_dict[ticker].current_price)
     /\ ~IsNone(db_stock_dict[ticker].change_in_day)
  THEN <<Mover(ticker, Val(db_stock_dict[ticker].change_in_day) * 10000,
               Val(db_stock_dict[ticker].current_price))>>
  ELSE << >>

\* the first loop: the movers served from the database, in list order
RECURSIVE FreshMovers(_, _, _)
FreshMovers(tickers, db_stock_dict, now) ==
  IF tickers = << >> THEN << >>
  ELSE LET t == Head(tickers)
           rest == FreshMovers(Tail(tickers), db_stock_dict, now)
       IN IF MoversFresh(db_stock_dict, t, now)
          THEN <<FreshMover(db_stock_dict[t], t)>> \o rest
          ELSE rest

\* the first loop: stocks_to_update, in list order
StocksToUpdate(tickers, db_stock_dict, now) ==
  SelectSeq(tickers, LAMBDA t: ~MoversFresh(db_stock_dict, t, now))

\* the delay taken at the end of iteration i (0-based) of n, 0 for none
PacingDelay(i, n) ==
  IF (i + 1) % MaxConcurrent = 0 /\ i < n - 1 THEN DelayBetweenBatchesMs
  ELSE IF i < n - 1 THEN SmallDelayMs
  ELSE 0

\* variant: only network errors are caught
CaughtNetworkOnly(exc) == exc = "network"

\* except Exception: the exceptions the per-ticker handler catches
Caught(exc) == TRUE

\* quote and quote.get('current_price') and quote['current_price'] > 0
UsableQuote(quote) == quote.current_price # 0 /\ quote.current_price > 0

\* list.sort(key=lambda x: abs(x['change']), reverse=True): stable, descending
RECURSIVE InsertMover(_, _)
InsertMover(e, sorted) ==
  IF sorted = << >> THEN <<e>>
  ELSE IF Abs(Head(sorted).change) >= Abs(e.change)
       THEN <<Head(sorted)>> \o InsertMover(e, Tail(sorted))
       ELSE <<e>> \o sorted

\* variant: the list is left in insertion order
SortMoversSkipped(ms) == ms

RECURSIVE SortMovers(_)
SortMovers(ms) ==
  IF ms = << >> THEN << >>
  ELSE InsertMover(ms[Len(ms)], SortMovers(SubSeq(ms, 1, Len(ms) - 1)))

\* movers[:limit]
TopN(ms, limit) == SubSeq(ms, 1, Min(limit, Len(ms)))

(***************************************************************************)
(* Price history.  A date is a day number; an upstream series is the       *)
(* sequence of its entries in the order the payload lists them.            *)
(***************************************************************************)
\* one day of an upstream series: close and volume are None when null
SeriesEntry(date, close, volume) == [date |-> date, close |-> close, volume |-> volume]
\* one element of the list get_price_history returns
HistoryEntry(date, price, volume) == [date |-> date, price |-> price, volume |-> volume]
\* a response of a history endpoint
HistoryResponse(kind, series) == [kind |-> kind, series |-> series]

RECURSIVE InsertByDate(_, _)
\* the place list.sort(key=date) gives e among the sorted entries s (stable)
InsertByDate(s, e) ==
  IF s = << >> THEN <<e>>
  ELSE IF Head(s).date <= e.date THEN <<Head(s)>> \o InsertByDate(Tail(s), e)
  ELSE <<e>> \o s

RECURSIVE SortByDate(_)
\* history.sort(key=lambda x: x['date'])
SortByDate(s) ==
  IF s = << >> THEN << >>
  ELSE InsertByDate(SortByDate(SubSeq(s, 1, Len(s) - 1)), s[Len(s)])

\* StockAPIService._get_alpha_vantage_history; Decimal(None) and int(None) raise
AlphaVantageHistory(resp, days, today) ==
  CASE resp.kind = "network" -> Raise("network")
    [] resp.kind = "empty" -> [kind |-> "list", list |-> << >>]
    [] resp.kind = "series" ->
         LET InWindow(e) == e.date >= today - days
             kept == SelectSeq(resp.series, InWindow)
         IN IF \E k \in 1..Len(kept) : IsNone(kept[k].close) \/ IsNone(kept[k].volume)
            THEN Raise("data")
            ELSE [kind |-> "list",
                  list |-> SortByDate([k \in 1..Len(kept) |->
                             HistoryEntry(kept[k].date, Val(kept[k].close),
                                          Val(kept[k].volume))])]

\* StockAPIService._get_yahoo_finance_history
YahooFinanceHistory(resp, days) ==
  CASE resp.kind = "network" -> Raise("network")
    [] resp.kind = "empty" -> [kind |-> "list", list |-> << >>]
    [] resp.kind = "series" ->
         LET HasClose(e) == ~IsNone(e.close)
             kept == SelectSeq(resp.series, HasClose)
         IN [kind |-> "list",
             list |-> [k \in 1..Len(kept) |->
                         HistoryEntry(kept[k].date, Val(kept[k].close),
                                      IF Truthy(kept[k].volume) THEN Val(kept[k].volume)
                                      ELSE 0)]]

\* StockAPIService.get_price_history: any exception becomes the empty list
GetPriceHistory(key, resp, days, today) ==
  LET r == IF key # "demo" THEN AlphaVantageHistory(resp, days, today)
           ELSE YahooFinanceHistory(resp, days)
  IN IF r.kind = "raise" THEN << >> ELSE r.list

(***************************************************************************)
(* News.  An article carries the fields get_news_for_ticker reads.         *)
(***************************************************************************)
Article(title, sentiment, source) ==
  [title |-> title, sentiment |-> sentiment, source |-> source]

\* what a provider function returns: a list of articles, or an exception
Articles(list) == [kind |-> "list", list |-> list]

\* news = [n for n in news if n.get('sentiment') == sentiment], when sentiment is given
FilterSentiment(news, sentiment) ==
  IF IsNone(sentiment) THEN news
  ELSE LET Matches(n) == n.sentiment = sentiment
       IN SelectSeq(news, Matches)

\* s[:n] for n >= 0
Take(s, n) == SubSeq(s, 1, Min(n, Len(s)))

\* the loop keeping, without looking further, the first `limit` articles of each title
UniqueNewsCutFirst(news, limit, seen_titles, unique_news) ==
  LET cut == Take(news, limit)
      First(k) == \A j \in 1..(k - 1) : cut[j].title # cut[k].title
      RECURSIVE Keep(_)
      Keep(k) == IF k > Len(cut) THEN << >>
                 ELSE (IF First(k) THEN <<cut[k]>> ELSE << >>) \o Keep(k + 1)
  IN Keep(1)

RECURSIVE UniqueNews(_, _, _, _)
\* lines 55-62: the loop over news, with its set of seen titles and its break
UniqueNews(news, limit, seen_titles, unique_news) ==
  IF news = << >> THEN unique_news
  ELSE LET article == Head(news)
       IN IF article.title \notin seen_titles
          THEN IF Len(unique_news) + 1 >= limit
               THEN Append(unique_news, article)
               ELSE UniqueNews(Tail(news), limit, seen_titles \cup {article.title},
                               Append(unique_news, article))
          ELSE UniqueNews(Tail(news), limit, seen_titles, unique_news)

\* NewsService.get_news_for_ticker; newsapi, av and twitter are what each provider
\* function would return.  news is the merged list (None when a provider
\* raised), result the returned list, calls the providers asked, in order
GetNewsForTicker(news_api_key, key, twitter_bearer_token, limit, sentiment, newsapi, av, twitter) ==
  LET ask_newsapi == news_api_key
      failed1 == ask_newsapi /\ newsapi.kind = "raise"
      news1 == IF ask_newsapi /\ ~failed1 THEN newsapi.list ELSE << >>
      ask_av == ~failed1 /\ key # "demo"
      failed2 == ask_av /\ av.kind = "raise"
      news2 == IF ask_av /\ ~failed2 THEN news1 \o av.list ELSE news1
      ask_twitter == ~failed1 /\ ~failed2 /\ news2 = << >> /\ twitter_bearer_token
      news3 == IF ask_twitter THEN news2 \o twitter.list ELSE news2
      calls == (IF ask_newsapi THEN <<"newsapi">> ELSE << >>)
               \o (IF ask_av THEN <<"alpha_vantage">> ELSE << >>)
               \o (IF ask_twitter THEN <<"twitter">> ELSE << >>)
  IN IF failed1 \/ failed2
     THEN [news |-> None, result |-> << >>, calls |-> calls]
     ELSE [news |-> Some(news3),
           result |-> Take(UniqueNews(FilterSentiment(news3, sentiment), limit, {}, << >>),
                           limit),
           calls |-> calls]

(***************************************************************************)
(* Sentiment.  A text is the sequence of its characters.                   *)
(***************************************************************************)
UpperCase ==
  <<"A", "B", "C", "D", "E", "F", "G", "H", "I", "J", "K", "L", "M",
  "N", "O", "P", "Q", "R", "S", "T", "U", "V", "W", "X", "Y", "Z">>
LowerCase ==
  <<"a", "b", "c", "d", "e", "f", "g", "h", "i", "j", "k", "l", "m",
  "n", "o", "p", "q", "r", "s", "t", "u", "v", "w", "x", "y", "z">>

\* str.lower() on one character
LowerChar(c) ==
  IF \E k \in 1..Len(UpperCase) : UpperCase[k] = c
  THEN LowerCase[CHOOSE k \in 1..Len(UpperCase) : UpperCase[k] = c]
  ELSE c

\* text.lower()
Lower(text) == [k \in 1..Len(text) |-> LowerChar(text[k])]

\* the characters str.strip() removes
Whitespace == {" ", "\t", "\n"}

\* not text.strip()
IsBlank(text) == \A k \in 1..Len(text) : text[k] \in Whitespace

\* keyword in text_lower
Contains(text, keyword) ==
  \E k \in 1..(Len(text) - Len(keyword) + 1) :
    text[k] = keyword[1] /\ SubSeq(text, k, k + Len(keyword) - 1) = keyword

\* bullish_keywords, in the order and with the repetition of the source
BullishKeywords ==
  << <<"s", "u", "r", "g", "e">>,
     <<"r", "a", "l", "l", "y">>,
     <<"g", "a", "i", "n">>,
     <<"r", "i", "s", "e">>,
     <<"u", "p">>,
     <<"b", "u", "l", "l", "i", "s", "h">>,
     <<"b", "u", "y">>,
     <<"o", "u", "t", "p", "e", "r", "f", "o", "r", "m">>,
     <<"g", "r", "o", "w", "t", "h">>,
     <<"p", "r", "o", "f", "i", "t">>,
     <<"e", "a", "r", "n", "i", "n", "g", "s", " ", "b", "e", "a", "t">>,
     <<"u", "p", "g", "r", "a", "d", "e">>,
     <<"p", "o", "s", "i", "t", "i", "v", "e">>,
     <<"s", "t", "r", "o", "n", "g">>,
     <<"m", "o", "m", "e", "n", "t", "u", "m">>,
     <<"b", "r", "e", "a", "k", "t", "h", "r", "o", "u", "g", "h">>,
     <<"s", "u", "c", "c", "e", "s", "s">>,
     <<"w", "i", "n">>,
     <<"s", "o", "a", "r">>,
     <<"j", "u", "m", "p">>,
     <<"c", "l", "i", "m", "b">>,
     <<"i", "n", "c", "r", "e", "a", "s", "e">>,
     <<"e", "x", "p", "a", "n", "d">>,
     <<"b", "o", "o", "m">>,
     <<"t", "h", "r", "i", "v", "e">>,
     <<"e", "x", "c", "e", "l">>,
     <<"o", "u", "t", "p", "e", "r", "f", "o", "r", "m">> >>

\* bearish_keywords
BearishKeywords ==
  << <<"d", "r", "o", "p">>,
     <<"f", "a", "l", "l">>,
     <<"d", "e", "c", "l", "i", "n", "e">>,
     <<"d", "o", "w", "n">>,
     <<"b", "e", "a", "r", "i", "s", "h">>,
     <<"s", "e", "l", "l">>,
     <<"u", "n", "d", "e", "r", "p", "e", "r", "f", "o", "r", "m">>,
     <<"l", "o", "s", "s">>,
     <<"e", "a", "r", "n", "i", "n", "g", "s", " ", "m", "i", "s", "s">>,
     <<"d", "o", "w", "n", "g", "r", "a", "d", "e">>,
     <<"n", "e", "g", "a", "t", "i", "v", "e">>,
     <<"w", "e", "a", "k">>,
     <<"c", "r", "a", "s", "h">>,
     <<"p", "l", "u", "n", "g", "e">>,
     <<"t", "u", "m", "b", "l", "e">>,
     <<"s", "l", "u", "m", "p">>,
     <<"d", "e", "c", "r", "e", "a", "s", "e">>,
     <<"s", "h", "r", "i", "n", "k">>,
     <<"s", "t", "r", "u", "g", "g", "l", "e">>,
     <<"f", "a", "i", "l">>,
     <<"c", "o", "n", "c", "e", "r", "n">>,
     <<"r", "i", "s", "k">>,
     <<"w", "o", "r", "r", "y">>,
     <<"f", "e", "a", "r">>,
     <<"u", "n", "c", "e", "r", "t", "a", "i", "n", "t", "y">>,
     <<"v", "o", "l", "a", "t", "i", "l", "i", "t", "y">> >>

\* sum(1 for keyword in keywords if keyword in text_lower)
KeywordCount(keywords, text_lower) ==
  Cardinality({ k \in 1..Len(keywords) : Contains(text_lower, keywords[k]) })

\* the decision taking a lead of one for a majority
DecideAtLeadOne(bullish_count, bearish_count) ==
  IF bullish_count > bearish_count THEN "Bullish"
  ELSE IF bearish_count > bullish_count THEN "Bearish"
  ELSE "Neutral"

\* lines 134-140: the decision on the two counts
Decide(bullish_count, bearish_count) ==
  IF bullish_count > bearish_count + 1 THEN "Bullish"
  ELSE IF bearish_count > bullish_count + 1 THEN "Bearish"
  ELSE "Neutral"

\* SentimentService._analyze_with_simple_algorithm, with its two counts
AnalyzeWithSimpleAlgorithm(text) ==
  LET text_lower == Lower(text)
      bullish_count == KeywordCount(BullishKeywords, text_lower)
      bearish_count == KeywordCount(BearishKeywords, text_lower)
  IN [sentiment |-> Decide(bullish_count, bearish_count),
      bullish_count |-> bullish_count, bearish_count |-> bearish_count]

\* an outcome of the FinBERT model: a predicted class index, or a failure to
\* load or to run
FinbertClass(index) == [kind |-> "class", index |-> index]
FinbertFailure(exc) == [kind |-> "raise", index |-> 0, exc |-> exc]

\* a LABEL_MAP without its default
LabelMapNoDefault(predicted_class) ==
  CASE predicted_class = 0 -> "Bearish"
    [] predicted_class = 1 -> "Neutral"
    [] predicted_class = 2 -> "Bullish"
    [] OTHER -> "Unknown"

\* LABEL_MAP.get(predicted_class, "Neutral")
LabelMap(predicted_class) ==
  CASE predicted_class = 0 -> "Bearish"
    [] predicted_class = 1 -> "Neutral"
    [] predicted_class = 2 -> "Bullish"
    [] OTHER -> "Neutral"

\* ai_model.predict_sentiment: every exception becomes "Neutral"
PredictSentiment(text, finbert) ==
  IF text = << >> \/ IsBlank(text) THEN "Neutral"
  ELSE IF finbert.kind = "raise" THEN "Neutral"
  ELSE LabelMap(finbert.index)

\* an answer of the OpenAI endpoint: the words of the stripped message content
\* of a 200 response, another status code, or a failure of the request
OpenAIContent(words) == [kind |-> "content", words |-> words]
OpenAIStatus(code) == [kind |-> "status", words |-> << >>, code |-> code]
OpenAIFailure(exc) == [kind |-> "raise", words |-> << >>, exc |-> exc]

\* SentimentService._analyze_with_openai: a label, or the exception raised
AnalyzeWithOpenAI(answer) ==
  CASE answer.kind = "raise" -> Raise(answer.exc)
    [] answer.kind = "status" -> [kind |-> "label", sentiment |-> "Neutral"]
    [] answer.kind = "content" ->
         LET sentiment == IF answer.words # << >> THEN answer.words[1] ELSE "Neutral"
         IN [kind |-> "label",
             sentiment |-> IF sentiment \in {"Bullish", "Bearish", "Neutral"}
                           THEN sentiment ELSE "Neutral"]

\* SentimentService.analyze_sentiment; finbert is the outcome of the model,
\* openai1 and openai2 the answers to the first and the second OpenAI request.
\* path names the classifier whose label is returned
AnalyzeSentiment(text, finbert_available, use_external_api, openai_api_key, finbert, openai1, openai2) ==
  LET external == use_external_api /\ openai_api_key
      first == AnalyzeWithOpenAI(openai1)
      second == AnalyzeWithOpenAI(openai2)
      simple == [sentiment |-> AnalyzeWithSimpleAlgorithm(text).sentiment,
                 path |-> "simple"]
  IN IF text = << >> THEN [sentiment |-> "Neutral", path |-> "empty"]
     ELSE IF finbert_available
     THEN [sentiment |-> PredictSentiment(text, finbert), path |-> "finbert"]
     ELSE IF external
     THEN IF first.kind # "raise"
          THEN [sentiment |-> first.sentiment, path |-> "openai"]
          ELSE IF second.kind # "raise"
          THEN [sentiment |-> second.sentiment, path |-> "openai_retry"]
          ELSE simple
     ELSE simple

(***************************************************************************)
(* News buzz.  A score is an integer in millionths (six decimal places);   *)
(* the input of the ranking is the list of the tickers with the number of  *)
(* their articles.  The quotient news_count / max(..., 10.0) is a double;  *)
(* for the counts explored round(., 6) of that double is the nearest       *)
(* millionth of the exact quotient, which is what RoundHalfEven computes.  *)
(***************************************************************************)
BuzzFloor == 10
BuzzCap == 999999
ServiceNewsLimit == 5
Million == 1000000

NewsCount(ticker, news_count) == [ticker |-> ticker, news_count |-> news_count]
BuzzEntry(ticker, score) == [ticker |-> ticker, score |-> score]

\* round(num / den, 6) in millionths: Python rounds to nearest, ties to even
RoundHalfEven(num, den) ==
  LET q == (num * Million) \div den
      r == (num * Million) % den
  IN IF 2 * r < den THEN q
     ELSE IF 2 * r > den THEN q + 1
     ELSE IF q % 2 = 0 THEN q ELSE q + 1

Max(a, b) == IF a > b THEN a ELSE b

\* variant: the divisor has no floor of 10
CappedQuotientNoFloor(news_count, normalizer) ==
  IF news_count * Million >= BuzzCap * normalizer
  THEN BuzzCap
  ELSE RoundHalfEven(news_count, normalizer)

\* round(min(news_count / max(normalizer, 10.0), 0.999999), 6)
CappedQuotient(news_count, normalizer) ==
  LET divisor == Max(normalizer, BuzzFloor)
  IN IF news_count * Million >= BuzzCap * divisor
     THEN BuzzCap
     ELSE RoundHalfEven(news_count, divisor)

\* for item in news_counts: if item['news_count'] > max_news_count: ...
RECURSIVE MaxNewsCount(_, _)
MaxNewsCount(news_counts, max_news_count) ==
  IF news_counts = << >> THEN max_news_count
  ELSE MaxNewsCount(Tail(news_counts),
                    IF Head(news_counts).news_count > max_news_count
                    THEN Head(news_counts).news_count ELSE max_news_count)

\* NewsBuzzView.get: the second loop over news_counts
ViewBuzzData(news_counts) ==
  LET max_news_count == MaxNewsCount(news_counts, 0)
  IN [k \in 1..Len(news_counts) |->
        BuzzEntry(news_counts[k].ticker,
                  IF max_news_count > 0
                  THEN CappedQuotient(news_counts[k].news_count, max_news_count)
                  ELSE 0)]

\* NewsService.get_news_buzz: the loop over popular_tickers; lengths[k] is
\* len(news) for the k-th ticker, and a ticker without news is skipped
RECURSIVE ServiceBuzzScores(_)
ServiceBuzzScores(lengths) ==
  IF lengths = << >> THEN << >>
  ELSE LET item == lengths[Len(lengths)]
           rest == ServiceBuzzScores(SubSeq(lengths, 1, Len(lengths) - 1))
       IN IF item.news_count # 0
          THEN Append(rest, BuzzEntry(item.ticker,
                                      CappedQuotient(item.news_count, BuzzFloor)))
          ELSE rest

\* variant: an entry goes in front of the entries of equal score
InsertByScoreFirst(e, sorted) ==
  LET ahead == SelectSeq(sorted, LAMBDA x : x.score > e.score)
      behind == SelectSeq(sorted, LAMBDA x : x.score <= e.score)
  IN ahead \o <<e>> \o behind

\* list.sort(key=lambda x: x['score'], reverse=True): stable, descending;
\* `sorted` holds the entries that precede e in the list
InsertByScore(e, sorted) ==
  LET ahead == SelectSeq(sorted, LAMBDA x : x.score >= e.score)
      behind == SelectSeq(sorted, LAMBDA x : x.score < e.score)
  IN ahead \o <<e>> \o behind

RECURSIVE SortByScore(_)
SortByScore(buzz_data) ==
  IF buzz_data = << >> THEN << >>
  ELSE InsertByScore(buzz_data[Len(buzz_data)],
                     SortByScore(SubSeq(buzz_data, 1, Len(buzz_data) - 1)))

\* buzz_data[:limit], for limit >= 0
FirstN(buzz_data, limit) == SubSeq(buzz_data, 1, Min(limit, Len(buzz_data)))

(***************************************************************************)
(* Sentiment movers.  The News table is a set of row groups: `copies` is   *)
(* the number of rows that agree on the other fields.                      *)
(***************************************************************************)
NewsRows(ticker, date, sentiment, sentiment_analyzed, copies) ==
  [ticker |-> ticker, date |-> date, sentiment |-> sentiment,
   sentiment_analyzed |-> sentiment_analyzed, copies |-> copies]

RECURSIVE SumCopies(_)
SumCopies(rows) ==
  IF rows = {} THEN 0
  ELSE LET r == CHOOSE x \in rows : TRUE IN r.copies + SumCopies(rows \ {r})

\* News.objects.filter(ticker=..., date__date__gte=yesterday, sentiment_analyzed=True)
RecentNews(news, ticker, yesterday) ==
  { r \in news : r.ticker = ticker /\ r.date >= yesterday /\ r.sentiment_analyzed }

\* variant: the previous window runs through yesterday
PreviousNewsThroughYesterday(news, ticker, week_ago, yesterday) ==
  { r \in news : /\ r.ticker = ticker /\ r.sentiment_analyzed
                 /\ r.date >= week_ago /\ r.date <= yesterday }

\* News.objects.filter(ticker=..., date__date__gte=week_ago, date__date__lt=yesterday,
\*                     sentiment_analyzed=True)
PreviousNews(news, ticker, week_ago, yesterday) ==
  { r \in news : /\ r.ticker = ticker /\ r.sentiment_analyzed
                 /\ r.date >= week_ago /\ r.date < yesterday }

\* queryset.filter(sentiment=...).count()
CountSentiment(rows, sentiment) == SumCopies({ r \in rows : r.sentiment = sentiment })

\* (d / total) * 100 is evaluated in binary64: the quotient is rounded, then the
\* product.  For these pairs <<|d|, total>>, and for no other with total <= 100,
\* the product falls just below the integer the exact value is
\* (29 / 50 * 100 = 57.99999999999999), and int() drops the fraction.
DoubleShortfalls == { <<29, 50>>, <<29, 100>>, <<57, 100>>, <<58, 100>> }

\* int(((bullish - bearish) / total) * 100): int() truncates toward zero
IntPercent(diff, total) ==
  LET exact == (Abs(diff) * 100) \div total
      magnitude == IF <<Abs(diff), total>> \in DoubleShortfalls THEN exact - 1 ELSE exact
  IN IF diff < 0 THEN -magnitude ELSE magnitude

SentimentMover(ticker, sentiment_score, change) ==
  [ticker |-> ticker, sentiment_score |-> sentiment_score, change |-> change]

\* the body of `for stock in stocks`: the entries it appends for one stock
MoverOfStock(news, ticker, today) ==
  LET yesterday == today - 1
      week_ago == today - 7
      recent_news == RecentNews(news, ticker, yesterday)
      bullish == CountSentiment(recent_news, "Bullish")
      bearish == CountSentiment(recent_news, "Bearish")
      neutral == CountSentiment(recent_news, "Neutral")
      total == bullish + bearish + neutral
      sentiment_score == IntPercent(bullish - bearish, total)
      previous_news == PreviousNews(news, ticker, week_ago, yesterday)
      prev_bullish == CountSentiment(previous_news, "Bullish")
      prev_bearish == CountSentiment(previous_news, "Bearish")
      prev_total == prev_bullish + prev_bearish + CountSentiment(previous_news, "Neutral")
      change == IF prev_total > 0
                THEN sentiment_score - IntPercent(prev_bullish - prev_bearish, prev_total)
                ELSE 0
  IN IF recent_news # {} /\ total > 0
     THEN <<SentimentMover(ticker, sentiment_score, change)>>
     ELSE << >>

RECURSIVE SentimentMovers(_, _, _)
SentimentMovers(stocks, news, today) ==
  IF stocks = << >> THEN << >>
  ELSE SentimentMovers(SubSeq(stocks, 1, Len(stocks) - 1), news, today)
         \o MoverOfStock(news, stocks[Len(stocks)], today)

(***************************************************************************)
(* The PriceHistory table as StockDetailsView.get uses it.  A row carries  *)
(* its primary key, so that two rows of one (stock, date) are two rows.    *)
(***************************************************************************)
HistoryWindowDays == 30

PricePoint(id, stock, date, price, volume) ==
  [id |-> id, stock |-> stock, date |-> date, price |-> price, volume |-> volume]

\* set(PriceHistory.objects.filter(stock=stock, date__gte=start_date)
\*       .values_list('date', flat=True))
ExistingDates(table, stock, start_date) ==
  { r.date : r \in { x \in table : x.stock = stock /\ x.date >= start_date } }

\* for i in range(30): required_dates.add(start_date + timedelta(days=i))
RequiredDates(start_date) == { start_date + k : k \in 0..(HistoryWindowDays - 1) }

\* missing_dates = required_dates - existing_dates
MissingDates(table, stock, today) ==
  RequiredDates(today - HistoryWindowDays)
    \ ExistingDates(table, stock, today - HistoryWindowDays)

\* days_to_fetch = (today - min(missing_dates)).days + 1
DaysToFetch(today, missing_dates) ==
  today - (CHOOSE d \in missing_dates : \A e \in missing_dates : d <= e) + 1

\* the rows queryset.get(stock=stock, date=date) chooses from
Matching(table, stock, date) == { r \in table : r.stock = stock /\ r.date = date }

\* variant: the table accepts a second row for a (stock, date)
UniquePerTickerDropped(table, stock, date) == TRUE

\* PriceHistoryPoint: the date is unique per ticker, so an INSERT of a second row
\* for a (stock, date) is rejected with IntegrityError
UniquePerTicker(table, stock, date) == Matching(table, stock, date) = {}

\* the INSERT of PriceHistory.objects.create(stock=..., date=..., **defaults)
InsertPoint(table, stock, date, defaults) ==
  table \cup { PricePoint(Cardinality(table) + 1, stock, date,
                          defaults.price, defaults.volume) }

\* setattr(obj, k, v) for the defaults; obj.save()
UpdatePoint(table, id, defaults) ==
  { IF r.id = id THEN [r EXCEPT !.price = defaults.price, !.volume = defaults.volume]
    ELSE r : r \in table }

(***************************************************************************)
(* The persisted store (Stock table) as the services use it.               *)
(***************************************************************************)
\* Stock.objects.get_or_create(ticker=..., defaults=...)
GetOrCreate(table, ticker, clk) ==
  IF ticker \in DOMAIN table THEN table ELSE (ticker :> NewStockRow(clk)) @@ table

\* variant: the save writes the price column only
SaveQuotePriceOnly(table, ticker, quote, clk) ==
  [table EXCEPT ![ticker].current_price = Some(quote.current_price),
                ![ticker].updated_at = Some(clk)]

\* variant: volume and market_cap are assigned whatever the quote carries
SaveQuoteAllColumns(table, ticker, quote, clk) ==
  [table EXCEPT ![ticker] =
     WithVolume(StockRow(Some(quote.current_price), Some(quote.change_percent), Some(clk)),
                quote.volume, quote.market_cap)]

\* stock.current_price = ...; stock.change_in_day = ...; volume and market_cap
\* when the quote has a truthy one; stock.save() (updated_at is auto_now)
SaveQuote(table, ticker, quote, clk) ==
  [table EXCEPT ![ticker] =
     WithVolume(StockRow(Some(quote.current_price), Some(quote.change_percent), Some(clk)),
                IF Truthy(quote.volume) THEN quote.volume ELSE table[ticker].volume,
                IF Truthy(quote.market_cap) THEN quote.market_cap
                ELSE table[ticker].market_cap)]

(***************************************************************************)
(* State.                                                                  *)
(***************************************************************************)
VARIABLES
  alpha_vantage_key,  \* StockAPIService.alpha_vantage_key ("demo" when unset)
  db,                 \* Stock table: ticker -> row, for the tickers that have one
  clock,              \* wall clock, ms
  responses,          \* what the upstreams may answer to a quote request in this run
  store_faults,       \* how a store write may fail in this run
  limit,              \* get_top_movers(limit)
  pc,                 \* position of the request: idle, refresh, done, failed for
                      \* get_top_movers; details, details_quoted, details_done
                      \* for StockDetailsView.get
  now,                \* local `now`
  tickers_to_check,   \* local
  db_stock_dict,      \* local: the rows read at the start of the request
  movers,             \* local
  stocks_to_update,   \* local
  i,                  \* iterations of the refresh loop completed
  result,             \* the returned list
  trace,              \* upstream requests and sleeps of the request, in order
  status,             \* per ticker: NONE, FRESH, STALE, UPDATED, FALLBACK, DROPPED
  outcome,            \* per ticker: what its refresh ran into
  fp_stock,           \* _should_update_stock_quote: argument stock
  fp_now,             \* _should_update_stock_quote: argument now
  fp_result,          \* _should_update_stock_quote: returned value, None before the call
  d_ticker,           \* StockDetailsView.get: the ticker parameter, None when absent
  d_existing,         \* the ticker's row when the request arrived, None if it had none
  d_stock,            \* local `stock` (the in-memory object), None before get_or_create
  d_up,               \* what the upstream answered to the quote request, None if not asked
  d_quote,            \* what get_stock_quote returned or raised, None if not called
  d_response,         \* the HTTP response, None until the handler returns
  h_days,             \* get_price_history: argument days
  h_payload,          \* get_price_history: what the upstream answers
  h_result,           \* get_price_history: returned list, None before the call
  n_news_api_key,     \* NewsService.news_api_key is set
  n_twitter_bearer_token,  \* NewsService.twitter_bearer_token is set
  n_limit,            \* get_news_for_ticker: argument limit
  n_sentiment,        \* get_news_for_ticker: argument sentiment, None when not given
  n_news,             \* local `news` once the providers are merged; None before the
                      \* call and when a provider raised
  n_calls,            \* the providers asked, in order
  n_result,           \* get_news_for_ticker: returned list, None before the call
  s_call,             \* which function of SentimentService is applied
  s_text,             \* argument text
  s_finbert_available,  \* SentimentService.finbert_available
  s_use_external_api, \* SentimentService.use_external_api
  s_openai_api_key,   \* SentimentService.openai_api_key is set
  s_finbert,          \* the outcome of the FinBERT model, None if it was not run
  s_openai,           \* the answers of the OpenAI endpoint, in order
  s_result            \* the returned label with the classifier it came from and, for
                      \* the keyword heuristic applied directly, its two counts;
                      \* None before the call
VARIABLES
  b_call,             \* which news-buzz computation runs: view or service
  b_limit,            \* the limit parameter
  b_counts,           \* view: the rows of the news_counts query, in its order;
                      \* service: len(news) per popular ticker, in list order
  b_result            \* the returned list, None before the call
VARIABLES
  sm_limit,           \* SentimentMoversView.get: the limit parameter
  sm_stocks,          \* the tickers of the Stock table, in the order of the query
  sm_news,            \* the News table
  sm_result           \* the returned list, None before the call
VARIABLES
  ph,                 \* PriceHistory table: a set of rows
  r_pc,               \* per stock-details request: its position in the history stage
  r_missing,          \* per request: local `missing_dates`
  r_data,             \* per request: local `price_history_data`
  r_k,                \* per request: the index of `price_data` in the loop
  r_found,            \* per request: the id of the row update_or_create got
  r_response          \* per request: the status of the response, None until it returns
VARIABLES
  c_kind,             \* per concurrent request: stock-details or top-movers
  c_pc,               \* per concurrent request: its position in the quote refresh
  c_quote,            \* per concurrent request: what get_stock_quote returned or raised
  c_log               \* the upstream calls and the saves of the requests, in order
VARIABLES
  use_tz,             \* settings.USE_TZ
  utc_offset,         \* the UTC offset of settings.TIME_ZONE, ms
  t_call,             \* which freshness evaluation computes the age of a row
  t_updated,          \* the instant the row was saved
  t_now,              \* the instant of the request
  t_result            \* the computed time_since_update or the exception raised,
                      \* None before the evaluation
VARIABLES
  q_round,            \* which request of a sequence of two is being processed
  q_start,            \* the instant the request of this round arrived
  q_refreshed         \* ticker -> the row a request of the first round persisted
                      \* from a quote with a positive price

\* the state of a get_top_movers request and of the store
mvars == <<alpha_vantage_key, db, clock, responses, store_faults, limit, pc, now,
           tickers_to_check, db_stock_dict, movers, stocks_to_update, i, result,
           trace, status, outcome>>
\* the state of a direct evaluation of the freshness policy
fvars == <<fp_stock, fp_now, fp_result>>

\* the state of a stock-details request, beyond the store and the request log
dvars == <<d_ticker, d_existing, d_stock, d_up, d_quote, d_response>>
\* the state of the directly evaluated service functions
hvars == <<h_days, h_payload, h_result>>
nvars == <<n_news_api_key, n_twitter_bearer_token, n_limit, n_sentiment, n_news,
           n_calls, n_result>>
svars == <<s_call, s_text, s_finbert_available, s_use_external_api, s_openai_api_key,
           s_finbert, s_openai, s_result>>
\* the state of the directly evaluated views
bvars == <<b_call, b_limit, b_counts, b_result>>
smvars == <<sm_limit, sm_stocks, sm_news, sm_result>>
qvars == <<bvars, smvars>>
\* the state of the price-history stage of concurrent stock-details requests
rvars == <<ph, r_pc, r_missing, r_data, r_k, r_found, r_response>>
\* the state of the quote refresh of concurrent requests, beyond the store
cvars == <<c_kind, c_pc, c_quote, c_log>>
\* the settings and the state of a direct evaluation of time_since_update
tvars == <<use_tz, utc_offset, t_call, t_updated, t_now, t_result>>
\* the bookkeeping of a sequence of two requests
kvars == <<q_round, q_start, q_refreshed>>
pvars == <<hvars, nvars, svars, qvars, rvars, cvars, tvars, kvars>>
\* everything outside a get_top_movers request and the freshness evaluation
ovars == <<dvars, pvars>>

vars == <<mvars, fvars, ovars>>

Tickers == 1..NPopular
\* the tickers whose stored row is varied freely in the initial states
RichTickers == {1, 2}

CallEvent(ticker, call) ==
  [kind |-> "call", ticker |-> ticker, provider |-> call.provider,
   failed |-> call.failed, ms |-> 0]
SleepEvent(ticker, ms) ==
  [kind |-> "sleep", ticker |-> ticker, provider |-> "none", failed |-> FALSE, ms |-> ms]

(***************************************************************************)
(* Initial states: the rows and upstream behaviours explored.              *)
(***************************************************************************)
Window == CacheDurationMs

\* the stored rows a varied ticker may have
RichRows ==
  { StockRow(Some(10000), Some(250), Some(Clock0 - 1000)),         \* fresh
    StockRow(Some(20000), Some(-300), Some(Clock0 - Window)),      \* age = window
    WithVolume(StockRow(Some(8000), Some(500), Some(Clock0 - Window - 1)),
               Some(700), Some(900)),                              \* older
    StockRow(Some(10000), Some(100), Some(Clock0 - Window + 1)),   \* just inside
    WithVolume(StockRow(None, Some(100), Some(Clock0 - 1000)),
               Some(700), None),                                   \* no price
    StockRow(Some(0), Some(100), Some(Clock0 - 1000)),             \* price 0
    StockRow(Some(10000), None, Some(Clock0 - 1000)),              \* no change
    StockRow(Some(10000), Some(200), None) }                       \* no updated_at

\* a fresh row for the tickers that are not varied
FixedFreshRow(k) ==
  StockRow(Some(10000), Some(IF k % 2 = 0 THEN 50 * k ELSE -(50 * k)), Some(Clock0 - 1000))

OldRow ==
  WithVolume(StockRow(Some(8000), Some(500), Some(Clock0 - Window - 1)), Some(700), Some(900))

Upstream(av, yahoo) == [av |-> av, yahoo |-> yahoo]

AVGood == AVWithVolume(AVResponse("quote", "150.00", Some(14800), Some(200), Some(135)), 1000)
YahooGood ==
  YahooWithVolume(YahooResponse("meta", Some(15000), Some(14800)), Some(1000), Some(5000))

MixedResponses ==
  { Upstream(AVResponse("network", "", None, None, None),
             YahooResponse("network", None, None)),
    Upstream(AVResponse("note", "", None, None, None), YahooResponse("meta", None, None)),
    Upstream(AVResponse("quote", "0", None, None, None),
             YahooResponse("meta", Some(0), Some(14800))),
    Upstream(AVGood, YahooGood),
    Upstream(AVResponse("quote", "50.00", Some(5500), Some(-500), Some(-909)),
             YahooWithVolume(YahooResponse("meta", Some(5000), Some(5500)), Some(0), None)),
    Upstream(AVResponse("quote", "0.00", Some(0), Some(0), Some(0)),
             YahooResponse("meta", Some(-100), Some(100))),
    Upstream(AVResponse("network", "", None, None, None), YahooGood) }

BatchResponses ==
  { Upstream(AVResponse("network", "", None, None, None),
             YahooResponse("network", None, None)),
    Upstream(AVGood, YahooGood) }

RichTables ==
  UNION { [S -> RichRows] : S \in SUBSET RichTickers }

\* a few varied rows, every other ticker fresh
InitMixed ==
  /\ limit \in 1..2
  /\ alpha_vantage_key \in {"demo", "KEY"}
  /\ \E rich \in RichTables :
       db = rich @@ [k \in Tickers \ RichTickers |-> FixedFreshRow(k)]
  /\ responses = MixedResponses
  /\ store_faults = {"none", "get_or_create", "save"}

\* a long batch of stale tickers
InitBatch ==
  /\ limit \in 3..MaxLimit
  /\ alpha_vantage_key = "demo"
  /\ db \in { << >>, [k \in Tickers |-> OldRow] }
  /\ responses = BatchResponses
  /\ store_faults = {"none"}

\* a limit beyond a third of the list: one stale ticker, every other fresh
InitWide ==
  /\ limit = MaxLimit + 1
  /\ alpha_vantage_key = "demo"
  /\ db = (1 :> OldRow) @@ [k \in Tickers |-> FixedFreshRow(k)]
  /\ responses = BatchResponses
  /\ store_faults = {"none"}

\* the locals of get_top_movers before the call
InitLocals ==
  /\ clock = Clock0
  /\ now = Clock0
  /\ tickers_to_check = << >>
  /\ db_stock_dict = << >>
  /\ movers = << >>
  /\ stocks_to_update = << >>
  /\ i = 0
  /\ result = << >>
  /\ trace = << >>
  /\ status = [t \in Tickers |-> "NONE"]
  /\ outcome = [t \in Tickers |-> "none"]

\* a get_top_movers request that has not started
InitRequest ==
  /\ pc = "idle"
  /\ InitLocals

\* no stock-details request
InitNoDetails ==
  /\ d_ticker = None
  /\ d_existing = None
  /\ d_stock = None
  /\ d_up = None
  /\ d_quote = None
  /\ d_response = None

\* no direct evaluation of a service function
InitNoHistory ==
  /\ h_days = 1
  /\ h_payload = HistoryResponse("empty", << >>)
  /\ h_result = None

InitNoNews ==
  /\ n_news_api_key = FALSE
  /\ n_twitter_bearer_token = FALSE
  /\ n_limit = 0
  /\ n_sentiment = None
  /\ n_news = None
  /\ n_calls = << >>
  /\ n_result = None

InitNoSentiment ==
  /\ s_call = "none"
  /\ s_text = << >>
  /\ s_finbert_available = FALSE
  /\ s_use_external_api = FALSE
  /\ s_openai_api_key = FALSE
  /\ s_finbert = None
  /\ s_openai = << >>
  /\ s_result = None

InitNoBuzz ==
  /\ b_call = "none"
  /\ b_limit = 0
  /\ b_counts = << >>
  /\ b_result = None

InitNoSentimentMovers ==
  /\ sm_limit = 0
  /\ sm_stocks = << >>
  /\ sm_news = {}
  /\ sm_result = None

InitNoViews == InitNoBuzz /\ InitNoSentimentMovers

Requests == {1, 2}

InitNoStore ==
  /\ ph = {}
  /\ r_pc = [p \in Requests |-> "idle"]
  /\ r_missing = [p \in Requests |-> {}]
  /\ r_data = [p \in Requests |-> << >>]
  /\ r_k = [p \in Requests |-> 0]
  /\ r_found = [p \in Requests |-> None]
  /\ r_response = [p \in Requests |-> None]

InitNoRace ==
  /\ c_kind = [p \in Requests |-> "none"]
  /\ c_pc = [p \in Requests |-> "idle"]
  /\ c_quote = [p \in Requests |-> None]
  /\ c_log = << >>

InitNoConcurrency == InitNoStore /\ InitNoRace

\* no age evaluation
InitNoAge ==
  /\ t_call = "none"
  /\ t_updated = 0
  /\ t_now = 0
  /\ t_result = None

\* the settings of a fresh project: USE_TZ = True, TIME_ZONE = 'UTC'
InitUtc ==
  /\ use_tz = TRUE
  /\ utc_offset = 0
  /\ InitNoAge

\* a single request
InitNoSequence ==
  /\ q_round = 1
  /\ q_start = Clock0
  /\ q_refreshed = << >>

InitNoPure ==
  /\ InitNoSequence
  /\ InitNoHistory /\ InitNoNews /\ InitNoSentiment /\ InitNoViews /\ InitNoConcurrency
  /\ InitUtc

\* no freshness evaluation in progress
InitNoPolicy ==
  /\ fp_stock = StockRow(None, None, None)
  /\ fp_now = Clock0
  /\ fp_result = None

Init ==
  /\ InitMixed \/ InitBatch \/ InitWide
  /\ InitRequest
  /\ InitNoPolicy
  /\ InitNoDetails
  /\ InitNoPure

(***************************************************************************)
(* get_top_movers(limit), one action per stretch of its body.              *)
(***************************************************************************)
\* lines 216-258: candidate selection, the database read and the first loop
Classify ==
  /\ pc = "idle"
  /\ LET tickers == TickersToCheck(limit)
         dict == [t \in { tickers[k] : k \in 1..Len(tickers) } \cap DOMAIN db |-> db[t]]
         stale == StocksToUpdate(tickers, dict, clock)
     IN /\ tickers_to_check' = tickers
        /\ now' = clock
        /\ db_stock_dict' = dict
        /\ movers' = FreshMovers(tickers, dict, clock)
        /\ stocks_to_update' = stale
        /\ status' = [t \in Tickers |->
                        IF \E k \in 1..Len(tickers) : tickers[k] = t
                        THEN IF MoversFresh(dict, t, clock) THEN "FRESH" ELSE "STALE"
                        ELSE "NONE"]
  /\ pc' = "refresh"
  /\ i' = 0
  /\ UNCHANGED <<alpha_vantage_key, db, clock, responses, store_faults, limit,
                 result, trace, outcome>>
  /\ UNCHANGED <<fvars, ovars>>

\* lines 267-310: one iteration of the refresh loop
RefreshStep ==
  /\ pc = "refresh"
  /\ i < Len(stocks_to_update)
  /\ \E up \in responses, fault \in store_faults :
       LET ticker == stocks_to_update[i + 1]
           got == GetStockQuote(alpha_vantage_key, up)
           quote == got.result
           calls == [k \in 1..Len(got.calls) |-> CallEvent(ticker, got.calls[k])]
           usable == quote.kind = "quote" /\ UsableQuote(quote)
           \* the exception raised inside the try block, if any
           raised == IF quote.kind = "raise" THEN <<quote.exc>>
                     ELSE IF usable /\ fault # "none" THEN <<"store">>
                     ELSE << >>
           delay == PacingDelay(i, Len(stocks_to_update))
           sleeps == IF delay > 0 THEN <<SleepEvent(ticker, delay)>> ELSE << >>
           created == GetOrCreate(db, ticker, clock)
       IN IF raised # << >>
          THEN \* the write may have got as far as get_or_create
               /\ db' = IF quote.kind = "quote" /\ fault = "save" THEN created ELSE db
               /\ trace' = trace \o calls
               /\ outcome' = [outcome EXCEPT ![ticker] = raised[1]]
               /\ clock' = clock
               /\ IF Caught(raised[1])
                  THEN LET fb == FallbackMovers(db_stock_dict, ticker)
                       IN /\ movers' = movers \o fb
                          /\ status' = [status EXCEPT ![ticker] =
                                          IF fb = << >> THEN "DROPPED" ELSE "FALLBACK"]
                          /\ i' = i + 1
                          /\ pc' = pc
                  ELSE /\ pc' = "failed"
                       /\ UNCHANGED <<movers, status, i>>
          ELSE /\ IF usable
                  THEN /\ db' = SaveQuote(created, ticker, quote, clock)
                       /\ movers' = Append(movers, UpdatedMover(quote, ticker))
                       /\ status' = [status EXCEPT ![ticker] = "UPDATED"]
                       /\ outcome' = [outcome EXCEPT ![ticker] = "ok"]
                  ELSE /\ db' = db
                       /\ movers' = movers
                       /\ status' = [status EXCEPT ![ticker] = "DROPPED"]
                       /\ outcome' = [outcome EXCEPT ![ticker] = "unusable"]
               /\ trace' = trace \o calls \o sleeps
               /\ clock' = clock + delay
               /\ i' = i + 1
               /\ pc' = pc
  /\ UNCHANGED <<alpha_vantage_key, responses, store_faults, limit, now,
                 tickers_to_check, db_stock_dict, stocks_to_update, result>>
  /\ UNCHANGED <<fvars, ovars>>

\* lines 312-314: sort and slice
Finish ==
  /\ pc = "refresh"
  /\ i = Len(stocks_to_update)
  /\ movers' = SortMovers(movers)
  /\ result' = TopN(SortMovers(movers), limit)
  /\ pc' = "done"
  /\ UNCHANGED <<alpha_vantage_key, db, clock, responses, store_faults, limit, now,
                 tickers_to_check, db_stock_dict, stocks_to_update, i, trace,
                 status, outcome>>
  /\ UNCHANGED <<fvars, ovars>>

Next == Classify \/ RefreshStep \/ Finish

Spec == Init /\ [][Next]_vars

(***************************************************************************)
(* FreshnessPolicy evaluated on its own: every combination of the fields   *)
(* _should_update_stock_quote reads, around the edge of the window.        *)
(***************************************************************************)
PolicyPrices == {None, Some(0), Some(10000)}
PolicyChanges == {None, Some(250)}
PolicyNows == {Clock0, Clock0 + Window}
PolicyAges == {0, 1000, Window - 1, Window, Window + 1, 2 * Window}

InitPolicy ==
  /\ fp_now \in PolicyNows
  /\ \E price \in PolicyPrices, change \in PolicyChanges :
       \E updated \in {None} \cup { Some(fp_now - age) : age \in PolicyAges } :
         fp_stock = StockRow(price, change, updated)
  /\ fp_result = None

InitFreshness ==
  /\ InitPolicy
  /\ InitRequest
  /\ limit = 1
  /\ alpha_vantage_key = "demo"
  /\ db = << >>
  /\ responses = {}
  /\ store_faults = {}
  /\ InitNoDetails
  /\ InitNoPure

\* should_update_quote = self._should_update_stock_quote(stock, now)
EvalShouldUpdate ==
  /\ fp_result = None
  /\ fp_result' = Some(ShouldUpdateStockQuote(fp_stock, fp_now))
  /\ UNCHANGED <<fp_stock, fp_now>>
  /\ UNCHANGED <<mvars, ovars>>

NextFreshness == EvalShouldUpdate

SpecFreshness == InitFreshness /\ [][NextFreshness]_vars

(***************************************************************************)
(* StockDetailsView.get: one stock-details request, up to the quote stage  *)
(* and the response built from the stock object.                           *)
(***************************************************************************)
\* Response(..., status=...): the fields of the body that depend on the quote
Response(code, price, change_in_day, error) ==
  [status |-> code, price |-> price, changeInDay |-> change_in_day, error |-> error]

\* 'price': float(stock.current_price) if stock.current_price else 0.0
FloatOrZero(o) == IF Truthy(o) THEN Val(o) ELSE 0

\* lines 165-180: the response of a request that reached the end of the try block
DetailsBody(stock) ==
  Response(200, FloatOrZero(stock.current_price), FloatOrZero(stock.change_in_day), "")

\* variant: the handler answers 200
ErrorResponseOk(exc) == Response(200, 0, 0, exc)

\* lines 182-186: except Exception as e -> 500 with str(e)
ErrorResponse(exc) == Response(500, 0, 0, exc)

\* the upstream answers explored by a stock-details request
DetailsResponses ==
  { Upstream(AVResponse("network", "", None, None, None),
             YahooResponse("network", None, None)),
    Upstream(AVGood, YahooGood),
    Upstream(AVResponse("note", "", None, None, None),
             YahooResponse("meta", None, None)),
    Upstream(AVResponse("quote", "0.00", Some(0), Some(0), Some(0)),
             YahooResponse("meta", Some(-100), Some(100))),
    Upstream(AVResponse("quote", "-1.00", Some(100), Some(-200), Some(-20000)),
             YahooResponse("error", None, None)),
    Upstream(AVResponse("quote", "150.00", Some(14800), None, None),
             YahooResponse("meta", Some(15000), None)),
    Upstream(AVResponse("no_global_quote", "", None, None, None),
             YahooResponse("meta", Some(15000), Some(0))),
    Upstream(AVResponse("quote", "0", None, None, None),
             YahooResponse("meta", Some(5000), Some(5500))) }

InitDetails ==
  /\ pc = "details"
  /\ InitLocals
  /\ limit = 1
  /\ alpha_vantage_key \in {"demo", "KEY"}
  /\ db \in RichTables
  /\ responses = DetailsResponses
  /\ store_faults = {"none", "get_or_create", "save"}
  /\ d_ticker \in {None} \cup { Some(t) : t \in RichTickers }
  /\ d_existing = None
  /\ d_stock = None
  /\ d_up = None
  /\ d_quote = None
  /\ d_response = None

\* lines 40-71: the parameter check, get_or_create and the quote refresh; an
\* exception leaves through the handler of lines 182-186
DetailsQuote ==
  /\ pc = "details"
  /\ IF IsNone(d_ticker)
     THEN /\ d_response' = Some(Response(400, 0, 0, "Ticker parameter is required"))
          /\ pc' = "details_done"
          /\ UNCHANGED <<db, trace, d_existing, d_stock, d_up, d_quote>>
     ELSE \E up \in responses, fault \in store_faults :
            LET ticker == Val(d_ticker)
                created == GetOrCreate(db, ticker, clock)
                stock == created[ticker]
                should_update_quote ==
                  ShouldUpdateStockQuote(stock, clock + DetailsSkew(use_tz, utc_offset))
                got == GetStockQuote(alpha_vantage_key, up)
                quote == got.result
                calls == [k \in 1..Len(got.calls) |-> CallEvent(ticker, got.calls[k])]
                saved == SaveQuote(created, ticker, quote, clock)
            IN /\ d_existing' = IF ticker \in DOMAIN db THEN Some(db[ticker]) ELSE None
               /\ IF fault = "get_or_create"
                  THEN /\ d_response' = Some(ErrorResponse("store"))
                       /\ pc' = "details_done"
                       /\ UNCHANGED <<db, trace, d_stock, d_up, d_quote>>
                  ELSE IF ~should_update_quote
                  THEN /\ db' = created
                       /\ d_stock' = Some(stock)
                       /\ pc' = "details_quoted"
                       /\ UNCHANGED <<trace, d_up, d_quote, d_response>>
                  ELSE /\ trace' = trace \o calls
                       /\ d_up' = Some(up)
                       /\ d_quote' = Some(quote)
                       /\ IF quote.kind = "raise"
                          THEN /\ db' = created
                               /\ d_stock' = Some(stock)
                               /\ d_response' = Some(ErrorResponse(quote.exc))
                               /\ pc' = "details_done"
                          ELSE IF fault = "save"
                          THEN /\ db' = created
                               /\ d_stock' = Some(stock)
                               /\ d_response' = Some(ErrorResponse("store"))
                               /\ pc' = "details_done"
                          ELSE /\ db' = saved
                               /\ d_stock' = Some(saved[ticker])
                               /\ d_response' = d_response
                               /\ pc' = "details_quoted"
  /\ UNCHANGED <<alpha_vantage_key, clock, responses, store_faults, limit, now,
                 tickers_to_check, db_stock_dict, movers, stocks_to_update, i, result,
                 status, outcome, d_ticker>>
  /\ UNCHANGED <<fvars, pvars>>

\* lines 161-180: the response built from the stock object
DetailsRespond ==
  /\ pc = "details_quoted"
  /\ d_response' = Some(DetailsBody(Val(d_stock)))
  /\ pc' = "details_done"
  /\ UNCHANGED <<alpha_vantage_key, db, clock, responses, store_faults, limit, now,
                 tickers_to_check, db_stock_dict, movers, stocks_to_update, i, result,
                 trace, status, outcome, d_ticker, d_existing, d_stock, d_up, d_quote>>
  /\ UNCHANGED <<fvars, pvars>>

NextDetails == DetailsQuote \/ DetailsRespond

\* a stock-details request and nothing else
InitDetailsOnly == InitDetails /\ InitNoPolicy /\ InitNoPure

SpecDetails == InitDetailsOnly /\ [][NextDetails]_vars

\* a request of either kind
InitRequests == Init \/ InitDetailsOnly

NextRequests == Classify \/ RefreshStep \/ Finish \/ DetailsQuote \/ DetailsRespond

SpecRequests == InitRequests /\ [][NextRequests]_vars

(***************************************************************************)
(* get_price_history evaluated on its own, for either provider and every   *)
(* short series over three days around the edge of the requested window.   *)
(***************************************************************************)
HistoryDates == {HistoryToday - 2, HistoryToday - 1, HistoryToday}
HistoryDays == {1, 30}
SeriesEntries ==
  { SeriesEntry(d, c, v) : d \in HistoryDates, c \in {None, Some(10000)},
                           v \in {None, Some(1000)} }
RECURSIVE SeqsUpTo(_, _)
\* the sequences over S of length at most n
SeqsUpTo(S, n) ==
  IF n = 0 THEN { << >> }
  ELSE LET shorter == SeqsUpTo(S, n - 1)
       IN shorter \cup { Append(s, x) : s \in shorter, x \in S }

\* the keys of a JSON object are distinct
DistinctDates(series) ==
  \A k, l \in 1..Len(series) : k # l => series[k].date # series[l].date

\* no request in progress and an empty store
InitNoRequest ==
  /\ InitRequest
  /\ limit = 1
  /\ db = << >>
  /\ responses = {}
  /\ store_faults = {}

InitHistory ==
  /\ alpha_vantage_key \in {"demo", "KEY"}
  /\ h_days \in HistoryDays
  /\ \/ h_payload \in { HistoryResponse("network", << >>), HistoryResponse("empty", << >>) }
     \/ \E series \in SeqsUpTo(SeriesEntries, MaxSeries) :
          /\ alpha_vantage_key # "demo" => DistinctDates(series)
          /\ h_payload = HistoryResponse("series", series)
  /\ h_result = None

\* price_history_data = stock_service.get_price_history(ticker, days=...)
EvalPriceHistory ==
  /\ h_result = None
  /\ h_result' = Some(GetPriceHistory(alpha_vantage_key, h_payload, h_days, HistoryToday))
  /\ UNCHANGED <<h_payload, h_days>>
  /\ UNCHANGED <<mvars, fvars, dvars, nvars, svars, qvars, rvars, cvars, tvars, kvars>>

NextHistory == EvalPriceHistory

InitHistoryOnly ==
  /\ InitHistory
  /\ InitNoRequest /\ InitNoPolicy /\ InitNoDetails /\ InitNoNews /\ InitNoSentiment
  /\ InitNoViews /\ InitNoConcurrency /\ InitUtc /\ InitNoSequence

SpecHistory == InitHistoryOnly /\ [][NextHistory]_vars

(***************************************************************************)
(* get_news_for_ticker evaluated on its own: every configuration of the    *)
(* three providers and short article lists with repeated titles.           *)
(***************************************************************************)
NewsTitles == {"Apple soars", "apple soars", "Fed cuts rates"}
NewsLimits == {0, 1, 2, 3}
NewsSentiments == {None, Some("Bullish")}

NewsApiAnswers ==
  {Raise("network")}
  \cup { Articles(l) :
           l \in SeqsUpTo({ Article(t, None, "newsapi") : t \in NewsTitles }, MaxArticles) }
AVNewsAnswers ==
  {Raise("network")}
  \cup { Articles(l) :
           l \in SeqsUpTo({ Article(t, Some(s), "alpha_vantage") :
                              t \in NewsTitles, s \in {"Bullish", "Neutral"} }, MaxArticles) }
\* _get_twitter_news returns [] on its own failures
TwitterAnswers ==
  { Articles(<< >>), Articles(<<Article("Apple soars", None, "Twitter")>>) }

InitNews ==
  /\ alpha_vantage_key \in {"demo", "KEY"}
  /\ n_news_api_key \in BOOLEAN
  /\ n_twitter_bearer_token \in BOOLEAN
  /\ n_limit \in NewsLimits
  /\ n_sentiment \in NewsSentiments
  /\ n_news = None
  /\ n_calls = << >>
  /\ n_result = None

\* news = news_service.get_news_for_ticker(ticker, limit, sentiment)
EvalNewsForTicker ==
  /\ n_result = None
  /\ \E newsapi \in NewsApiAnswers, av \in AVNewsAnswers, twitter \in TwitterAnswers :
       LET got == GetNewsForTicker(n_news_api_key, alpha_vantage_key,
                                   n_twitter_bearer_token, n_limit, n_sentiment,
                                   newsapi, av, twitter)
       IN /\ n_news' = got.news
          /\ n_calls' = got.calls
          /\ n_result' = Some(got.result)
  /\ UNCHANGED <<n_news_api_key, n_twitter_bearer_token, n_limit, n_sentiment>>
  /\ UNCHANGED <<mvars, fvars, dvars, hvars, svars, qvars, rvars, cvars, tvars, kvars>>

NextNews == EvalNewsForTicker

InitNewsOnly ==
  /\ InitNews
  /\ InitNoRequest /\ InitNoPolicy /\ InitNoDetails /\ InitNoHistory /\ InitNoSentiment
  /\ InitNoViews /\ InitNoConcurrency /\ InitUtc /\ InitNoSequence

SpecNews == InitNewsOnly /\ [][NextNews]_vars

(***************************************************************************)
(* analyze_sentiment and the keyword heuristic evaluated on their own:     *)
(* blank texts, the example headline and short texts over a vocabulary     *)
(* with bullish, bearish and neutral words.                                *)
(***************************************************************************)
Vocabulary ==
  { <<"S", "u", "r", "g", "e">>,
    <<"u", "p", "g", "r", "a", "d", "e">>,
    <<"r", "a", "l", "l", "y">>,
    <<"d", "r", "o", "p">>,
    <<"d", "o", "w", "n", "g", "r", "a", "d", "e">>,
    <<"r", "e", "p", "o", "r", "t">> }

RECURSIVE JoinWords(_)
\* " ".join(words)
JoinWords(words) ==
  IF words = << >> THEN << >>
  ELSE IF Len(words) = 1 THEN words[1]
  ELSE words[1] \o <<" ">> \o JoinWords(Tail(words))

\* "Stock surges on strong earnings beat"
ExampleText ==
  <<"S", "t", "o", "c", "k", " ", "s", "u", "r", "g", "e", "s", " ", "o",
  "n", " ", "s", "t", "r", "o", "n", "g", " ", "e", "a", "r", "n", "i",
  "n", "g", "s", " ", "b", "e", "a", "t">>

BlankTexts == { << >>, <<" ">>, <<" ", "\t">>, <<"\n">> }

SentimentTexts ==
  BlankTexts \cup {ExampleText}
  \cup { JoinWords(ws) : ws \in SeqsUpTo(Vocabulary, MaxWords) }

FinbertOutcomes ==
  { FinbertClass(c) : c \in 0..3 }
  \cup { FinbertFailure("load"), FinbertFailure("inference") }

OpenAIAnswers ==
  { OpenAIContent(<<"Bullish">>), OpenAIContent(<<"Bearish">>),
    OpenAIContent(<<"Neutral", "overall">>), OpenAIContent(<<"Positive">>),
    OpenAIContent(<<"bullish">>), OpenAIContent(<< >>),
    OpenAIStatus(429), OpenAIFailure("network") }

\* the outcomes a call can consume: none of a classifier the configuration
\* leaves out
FinbertDraws ==
  IF s_finbert_available /\ s_text # << >> THEN FinbertOutcomes ELSE {FinbertClass(1)}
OpenAIDraws ==
  IF ~s_finbert_available /\ s_use_external_api /\ s_openai_api_key /\ s_text # << >>
  THEN OpenAIAnswers ELSE {OpenAIStatus(0)}

InitSentiment ==
  /\ s_text \in SentimentTexts
  /\ \/ /\ s_call = "analyze_sentiment"
        /\ s_finbert_available \in BOOLEAN
        /\ s_use_external_api \in BOOLEAN
        /\ s_openai_api_key \in BOOLEAN
     \/ /\ s_call = "simple_algorithm"
        /\ s_finbert_available = FALSE
        /\ s_use_external_api = FALSE
        /\ s_openai_api_key = FALSE
  /\ s_finbert = None
  /\ s_openai = << >>
  /\ s_result = None

\* result = sentiment_service.analyze_sentiment(text)
EvalAnalyzeSentiment ==
  /\ s_call = "analyze_sentiment"
  /\ s_result = None
  /\ \E finbert \in FinbertDraws, openai1 \in OpenAIDraws :
     \E openai2 \in IF openai1.kind = "raise" THEN OpenAIDraws ELSE {openai1} :
       LET r == AnalyzeSentiment(s_text, s_finbert_available, s_use_external_api,
                                 s_openai_api_key, finbert, openai1, openai2)
       IN /\ s_result' = Some([sentiment |-> r.sentiment, path |-> r.path,
                                bullish_count |-> 0, bearish_count |-> 0])
          /\ s_finbert' = IF r.path = "finbert" THEN Some(finbert) ELSE None
          /\ s_openai' = CASE r.path = "openai" -> <<openai1>>
                            [] r.path = "openai_retry" -> <<openai1, openai2>>
                            [] r.path = "simple" /\ s_use_external_api /\ s_openai_api_key
                                 -> <<openai1, openai2>>
                            [] OTHER -> << >>
  /\ UNCHANGED <<s_text, s_call, s_finbert_available, s_use_external_api,
                 s_openai_api_key>>
  /\ UNCHANGED <<mvars, fvars, dvars, hvars, nvars, qvars, rvars, cvars, tvars, kvars>>

\* self._analyze_with_simple_algorithm(text)
EvalSimpleAlgorithm ==
  /\ s_call = "simple_algorithm"
  /\ s_result = None
  /\ LET r == AnalyzeWithSimpleAlgorithm(s_text)
     IN s_result' = Some([sentiment |-> r.sentiment, path |-> "simple",
                          bullish_count |-> r.bullish_count,
                          bearish_count |-> r.bearish_count])
  /\ UNCHANGED <<s_text, s_call, s_finbert_available, s_use_external_api,
                 s_openai_api_key, s_finbert, s_openai>>
  /\ UNCHANGED <<mvars, fvars, dvars, hvars, nvars, qvars, rvars, cvars, tvars, kvars>>

NextSentiment == EvalAnalyzeSentiment \/ EvalSimpleAlgorithm

InitSentimentOnly ==
  /\ InitSentiment
  /\ alpha_vantage_key = "demo"
  /\ InitNoRequest /\ InitNoPolicy /\ InitNoDetails /\ InitNoHistory /\ InitNoNews
  /\ InitNoViews /\ InitNoConcurrency /\ InitUtc /\ InitNoSequence

SpecSentiment == InitSentimentOnly /\ [][NextSentiment]_vars

(***************************************************************************)
(* The news-buzz ranking evaluated on its own: the view over the rows of   *)
(* its count query, the service over the lengths of its news lists.        *)
(***************************************************************************)
BuzzTickers == {1, 2, 3}
BuzzLimits == {0, 1, 2, 3}
ViewCounts == {1, 4, 9, 10, 13}
ServiceCounts == 0..ServiceNewsLimit

\* .annotate(news_count=Count('id')).order_by('-news_count')
OrderedByCount(news_counts) ==
  \A k \in 1..(Len(news_counts) - 1) :
    news_counts[k].news_count >= news_counts[k + 1].news_count

DistinctTickers(news_counts) ==
  \A j, k \in 1..Len(news_counts) :
    news_counts[j].ticker = news_counts[k].ticker => j = k

BuzzRows(counts) == { NewsCount(t, c) : t \in BuzzTickers, c \in counts }

InitBuzz ==
  /\ b_limit \in BuzzLimits
  /\ b_result = None
  /\ \/ /\ b_call = "view"
        /\ b_counts \in SeqsUpTo(BuzzRows(ViewCounts), Cardinality(BuzzTickers))
        /\ OrderedByCount(b_counts)
        /\ DistinctTickers(b_counts)
     \/ /\ b_call = "service"
        /\ \E lengths \in [BuzzTickers -> ServiceCounts] :
             b_counts = [k \in 1..Cardinality(BuzzTickers) |-> NewsCount(k, lengths[k])]

\* NewsBuzzView.get
EvalNewsBuzzView ==
  /\ b_call = "view"
  /\ b_result = None
  /\ b_result' = Some(FirstN(SortByScore(ViewBuzzData(b_counts)), b_limit))
  /\ UNCHANGED <<b_call, b_limit, b_counts>>
  /\ UNCHANGED <<mvars, fvars, dvars, hvars, nvars, svars, smvars, rvars, cvars, tvars, kvars>>

\* NewsService.get_news_buzz(limit)
EvalGetNewsBuzz ==
  /\ b_call = "service"
  /\ b_result = None
  /\ b_result' = Some(FirstN(SortByScore(ServiceBuzzScores(b_counts)), b_limit))
  /\ UNCHANGED <<b_call, b_limit, b_counts>>
  /\ UNCHANGED <<mvars, fvars, dvars, hvars, nvars, svars, smvars, rvars, cvars, tvars, kvars>>

NextBuzz == EvalNewsBuzzView \/ EvalGetNewsBuzz

InitBuzzOnly ==
  /\ InitBuzz
  /\ alpha_vantage_key = "demo"
  /\ InitNoRequest /\ InitNoPolicy /\ InitNoDetails
  /\ InitNoHistory /\ InitNoNews /\ InitNoSentiment
  /\ InitNoSentimentMovers /\ InitNoConcurrency /\ InitUtc /\ InitNoSequence

SpecBuzz == InitBuzzOnly /\ [][NextBuzz]_vars

(***************************************************************************)
(* The sentiment-movers view evaluated on its own: four stocks, two of     *)
(* them with every pairing of article profiles in the two windows, at the  *)
(* edges of the windows.                                                   *)
(***************************************************************************)
MoversToday == 20
SentimentLimits == {0, 1, 2}
\* <<bullish, bearish, neutral>> articles of one stock in one window
Profiles ==
  { <<0, 0, 0>>, <<6, 2, 2>>, <<2, 6, 2>>, <<29, 0, 21>>, <<0, 0, 3>>, <<1, 2, 0>> }
SentimentLabels == <<"Bullish", "Bearish", "Neutral">>

\* the analyzed rows of a stock on one day, per profile
ProfileRows(ticker, date, profile) ==
  { NewsRows(ticker, date, SentimentLabels[k], TRUE, profile[k]) :
      k \in { j \in 1..3 : profile[j] > 0 } }

\* rows no window counts: not analyzed, or older than a week
IgnoredRows ==
  { NewsRows(1, MoversToday, "Bullish", FALSE, 5),
    NewsRows(2, MoversToday - 8, "Bearish", TRUE, 4) }

InitSentimentMovers ==
  /\ sm_limit \in SentimentLimits
  /\ sm_stocks = <<1, 2, 3, 4>>
  /\ sm_result = None
  /\ \E recent \in {MoversToday, MoversToday - 1},
        previous \in {MoversToday - 2, MoversToday - 7},
        now1 \in Profiles, prev1 \in Profiles, now2 \in Profiles, prev2 \in Profiles :
       sm_news = ProfileRows(1, recent, now1) \cup ProfileRows(1, previous, prev1)
                   \cup ProfileRows(2, recent, now2) \cup ProfileRows(2, previous, prev2)
                   \cup ProfileRows(4, MoversToday, <<1, 0, 0>>)
                   \cup IgnoredRows

\* SentimentMoversView.get
EvalSentimentMovers ==
  /\ sm_result = None
  /\ LET stocks == Take(sm_stocks, sm_limit * 3)
         sentiment_movers == SentimentMovers(stocks, sm_news, MoversToday)
     IN sm_result' = Some(TopN(SortMovers(sentiment_movers), sm_limit))
  /\ UNCHANGED <<sm_limit, sm_stocks, sm_news>>
  /\ UNCHANGED <<mvars, fvars, dvars, hvars, nvars, svars, bvars, rvars, cvars, tvars, kvars>>

NextSentimentMovers == EvalSentimentMovers

InitSentimentMoversOnly ==
  /\ InitSentimentMovers
  /\ alpha_vantage_key = "demo"
  /\ InitNoRequest /\ InitNoPolicy /\ InitNoDetails
  /\ InitNoHistory /\ InitNoNews /\ InitNoSentiment
  /\ InitNoBuzz /\ InitNoConcurrency /\ InitUtc /\ InitNoSequence

SpecSentimentMovers == InitSentimentMoversOnly /\ [][NextSentimentMovers]_vars

(***************************************************************************)
(* The price-history stage of StockDetailsView.get, for two requests for   *)
(* one ticker whose statements interleave; a request alone, or after the   *)
(* other, is among the interleavings.                                      *)
(***************************************************************************)
StoreStock == 1
StoreDates == {HistoryToday - 2, HistoryToday - 1}
StoreEntries == { SeriesEntry(d, Some(c), Some(1000)) : d \in StoreDates, c \in {10000, 10100} }
StorePayloads ==
  { HistoryResponse("network", << >>) }
    \cup { HistoryResponse("series", s) : s \in SeqsUpTo(StoreEntries, 2) }

\* the tables a request may find: empty, one day of the window stored, and
\* every day of the window stored
OneDayTable == { PricePoint(1, StoreStock, HistoryToday - 1, 9900, 900) }
FullTable ==
  { PricePoint(k, StoreStock, HistoryToday - k, 9900, 900) : k \in 1..HistoryWindowDays }

InitStore ==
  /\ alpha_vantage_key \in {"demo", "KEY"}
  /\ ph \in { {}, OneDayTable, FullTable }
  /\ r_pc = [p \in Requests |-> "read"]
  /\ r_missing = [p \in Requests |-> {}]
  /\ r_data = [p \in Requests |-> << >>]
  /\ r_k = [p \in Requests |-> 0]
  /\ r_found = [p \in Requests |-> None]
  /\ r_response = [p \in Requests |-> None]

Defaults(price_data) == [price |-> price_data.price, volume |-> price_data.volume]

\* lines 80-99: existing_dates, required_dates, missing_dates
ReadExisting(p) ==
  /\ r_pc[p] = "read"
  /\ LET missing == MissingDates(ph, StoreStock, HistoryToday)
     IN /\ r_missing' = [r_missing EXCEPT ![p] = missing]
        /\ IF missing # {}
           THEN r_pc' = [r_pc EXCEPT ![p] = "fetch"] /\ UNCHANGED r_response
           ELSE /\ r_pc' = [r_pc EXCEPT ![p] = "done"]
                /\ r_response' = [r_response EXCEPT ![p] = Some(200)]
  /\ UNCHANGED <<ph, r_data, r_k, r_found>>
  /\ UNCHANGED <<mvars, fvars, dvars, hvars, nvars, svars, qvars, cvars, tvars, kvars>>

\* lines 101-105: price_history_data = get_price_history(ticker, days=days_to_fetch)
FetchHistory(p) ==
  /\ r_pc[p] = "fetch"
  /\ \E payload \in StorePayloads :
       /\ alpha_vantage_key # "demo" => DistinctDates(payload.series)
       /\ r_data' = [r_data EXCEPT ![p] =
                       GetPriceHistory(alpha_vantage_key, payload,
                                       DaysToFetch(HistoryToday, r_missing[p]),
                                       HistoryToday)]
  /\ r_k' = [r_k EXCEPT ![p] = 1]
  /\ r_pc' = [r_pc EXCEPT ![p] = "loop"]
  /\ UNCHANGED <<ph, r_missing, r_found, r_response>>
  /\ UNCHANGED <<mvars, fvars, dvars, hvars, nvars, svars, qvars, cvars, tvars, kvars>>

\* lines 108-110: the loop reaches its next entry; for a missing date
\* update_or_create starts with self.get(stock=stock, date=date)
LookupPoint(p) ==
  /\ r_pc[p] = "loop"
  /\ IF r_k[p] > Len(r_data[p])
     THEN /\ r_pc' = [r_pc EXCEPT ![p] = "done"]
          /\ r_response' = [r_response EXCEPT ![p] = Some(200)]
          /\ UNCHANGED <<r_k, r_found>>
     ELSE LET price_data == r_data[p][r_k[p]]
              got == Matching(ph, StoreStock, price_data.date)
          IN IF price_data.date \notin r_missing[p]
             THEN /\ r_k' = [r_k EXCEPT ![p] = @ + 1]
                  /\ UNCHANGED <<r_pc, r_found, r_response>>
             ELSE IF got = {}
             THEN /\ r_pc' = [r_pc EXCEPT ![p] = "create"]
                  /\ UNCHANGED <<r_k, r_found, r_response>>
             ELSE IF Cardinality(got) = 1
             THEN /\ r_pc' = [r_pc EXCEPT ![p] = "update"]
                  /\ r_found' = [r_found EXCEPT ![p] = Some((CHOOSE r \in got : TRUE).id)]
                  /\ UNCHANGED <<r_k, r_response>>
             ELSE \* MultipleObjectsReturned, caught at line 182
                  /\ r_pc' = [r_pc EXCEPT ![p] = "done"]
                  /\ r_response' = [r_response EXCEPT ![p] = Some(500)]
                  /\ UNCHANGED <<r_k, r_found>>
  /\ UNCHANGED <<ph, r_missing, r_data>>
  /\ UNCHANGED <<mvars, fvars, dvars, hvars, nvars, svars, qvars, cvars, tvars, kvars>>

\* update_or_create found no row: it creates one; on IntegrityError it gets the
\* row that is now there and goes on to update it
CreatePoint(p) ==
  /\ r_pc[p] = "create"
  /\ LET price_data == r_data[p][r_k[p]]
     IN IF UniquePerTicker(ph, StoreStock, price_data.date)
        THEN /\ ph' = InsertPoint(ph, StoreStock, price_data.date, Defaults(price_data))
             /\ r_k' = [r_k EXCEPT ![p] = @ + 1]
             /\ r_pc' = [r_pc EXCEPT ![p] = "loop"]
             /\ UNCHANGED r_found
        ELSE /\ r_found' = [r_found EXCEPT ![p] =
                  Some((CHOOSE r \in Matching(ph, StoreStock, price_data.date) : TRUE).id)]
             /\ r_pc' = [r_pc EXCEPT ![p] = "update"]
             /\ UNCHANGED <<ph, r_k>>
  /\ UNCHANGED <<r_missing, r_data, r_response>>
  /\ UNCHANGED <<mvars, fvars, dvars, hvars, nvars, svars, qvars, cvars, tvars, kvars>>

\* update_or_create found the row: it sets the defaults on it and saves it
UpdateExisting(p) ==
  /\ r_pc[p] = "update"
  /\ ph' = UpdatePoint(ph, Val(r_found[p]), Defaults(r_data[p][r_k[p]]))
  /\ r_k' = [r_k EXCEPT ![p] = @ + 1]
  /\ r_found' = [r_found EXCEPT ![p] = None]
  /\ r_pc' = [r_pc EXCEPT ![p] = "loop"]
  /\ UNCHANGED <<r_missing, r_data, r_response>>
  /\ UNCHANGED <<mvars, fvars, dvars, hvars, nvars, svars, qvars, cvars, tvars, kvars>>

NextStore ==
  \E p \in Requests :
    ReadExisting(p) \/ FetchHistory(p) \/ LookupPoint(p) \/ CreatePoint(p) \/ UpdateExisting(p)

InitStoreOnly ==
  /\ InitStore
  /\ InitNoRequest /\ InitNoPolicy /\ InitNoDetails
  /\ InitNoHistory /\ InitNoNews /\ InitNoSentiment /\ InitNoViews /\ InitNoRace
  /\ InitUtc /\ InitNoSequence

SpecStore == InitStoreOnly /\ [][NextStore]_vars

(***************************************************************************)
(* The quote refresh of two concurrent requests that process one ticker:   *)
(* each is a stock-details request (lines 50-71) or a get_top_movers call  *)
(* (lines 231-283) with the ticker among its candidates.                   *)
(***************************************************************************)
RaceTicker == 1
RaceResponses ==
  { Upstream(AVResponse("network", "", None, None, None),
             YahooResponse("network", None, None)),
    Upstream(AVGood, YahooGood),
    Upstream(AVResponse("quote", "50.00", Some(5500), Some(-500), Some(-909)),
             YahooResponse("meta", Some(5000), Some(5500))) }
RaceTables ==
  { << >>, RaceTicker :> OldRow,
    RaceTicker :> StockRow(Some(10000), Some(250), Some(Clock0 - 1000)) }

CallBy(p) == [p |-> p, kind |-> "call"]
SaveBy(p) == [p |-> p, kind |-> "save"]

InitRace ==
  /\ InitRequest
  /\ limit = 1
  /\ alpha_vantage_key \in {"demo", "KEY"}
  /\ db \in RaceTables
  /\ responses = RaceResponses
  /\ store_faults = {}
  /\ c_kind \in [Requests -> {"details", "movers"}]
  /\ c_pc = [p \in Requests |-> "load"]
  /\ c_quote = [p \in Requests |-> None]
  /\ c_log = << >>

\* what a request changes besides the store and its own position
RaceFrame ==
  UNCHANGED <<alpha_vantage_key, clock, responses, store_faults, limit, pc, now,
              tickers_to_check, db_stock_dict, movers, stocks_to_update, i, result,
              trace, status, outcome, c_kind>>

\* stock-details: get_or_create and _should_update_stock_quote (lines 50-59);
\* get_top_movers: the rows read and the freshness test (lines 231-258)
RaceLoad(p) ==
  /\ c_pc[p] = "load"
  /\ IF c_kind[p] = "details"
     THEN LET created == GetOrCreate(db, RaceTicker, clock)
          IN /\ db' = created
             /\ c_pc' = [c_pc EXCEPT ![p] =
                           IF ShouldUpdateStockQuote(created[RaceTicker],
                                clock + DetailsSkew(use_tz, utc_offset))
                           THEN "call" ELSE "done"]
     ELSE /\ c_pc' = [c_pc EXCEPT ![p] =
                        IF MoversFresh(db, RaceTicker, clock) THEN "done" ELSE "call"]
          /\ UNCHANGED db
  /\ UNCHANGED <<c_quote, c_log>>
  /\ RaceFrame
  /\ UNCHANGED <<fvars, dvars, hvars, nvars, svars, qvars, rvars, tvars, kvars>>

\* quote = get_stock_quote(ticker) (stock_details_view.py line 63,
\* stock_api_service.py lines 269-271)
RaceCall(p) ==
  /\ c_pc[p] = "call"
  /\ \E up \in responses :
       LET quote == GetStockQuote(alpha_vantage_key, up).result
       IN /\ c_quote' = [c_quote EXCEPT ![p] = Some(quote)]
          /\ c_pc' = [c_pc EXCEPT ![p] =
                        IF quote.kind = "raise" THEN "done"
                        ELSE IF c_kind[p] = "movers" /\ ~UsableQuote(quote) THEN "done"
                        ELSE "save"]
  /\ c_log' = Append(c_log, CallBy(p))
  /\ UNCHANGED db
  /\ RaceFrame
  /\ UNCHANGED <<fvars, dvars, hvars, nvars, svars, qvars, rvars, tvars, kvars>>

\* stock.current_price = ...; stock.change_in_day = ...; stock.save()
\* (stock_details_view.py lines 65-71, stock_api_service.py lines 273-283)
RaceSave(p) ==
  /\ c_pc[p] = "save"
  /\ db' = SaveQuote(GetOrCreate(db, RaceTicker, clock), RaceTicker, Val(c_quote[p]), clock)
  /\ c_log' = Append(c_log, SaveBy(p))
  /\ c_pc' = [c_pc EXCEPT ![p] = "done"]
  /\ UNCHANGED c_quote
  /\ RaceFrame
  /\ UNCHANGED <<fvars, dvars, hvars, nvars, svars, qvars, rvars, tvars, kvars>>

NextRace == \E p \in Requests : RaceLoad(p) \/ RaceCall(p) \/ RaceSave(p)

InitRaceOnly ==
  /\ InitRace
  /\ InitNoPolicy /\ InitNoDetails
  /\ InitNoHistory /\ InitNoNews /\ InitNoSentiment /\ InitNoViews /\ InitNoStore
  /\ InitUtc /\ InitNoSequence

SpecRace == InitRaceOnly /\ [][NextRace]_vars

(***************************************************************************)
(* time_since_update evaluated on its own, as each of the two freshness    *)
(* tests computes it, for the datetimes the settings make the ORM and the  *)
(* clock functions return.                                                 *)
(***************************************************************************)
UtcOffsets == {0, 18000000, -18000000}
AgeInstants == {Clock0, Clock0 + Window}

InitAge ==
  /\ use_tz \in BOOLEAN
  /\ utc_offset \in UtcOffsets
  /\ t_call \in {"details", "movers"}
  /\ t_now \in AgeInstants
  /\ t_updated \in { t_now - age : age \in PolicyAges }
  /\ t_result = None

\* stock_details_view.py: now = datetime.now() (line 56), lines 200-203
EvalDetailsAge ==
  /\ t_call = "details"
  /\ t_result = None
  /\ t_result' = Some(DetailsTimeSinceUpdate(StoredDatetime(t_updated, use_tz, utc_offset),
                                             DatetimeNow(t_now, utc_offset)))
  /\ UNCHANGED <<use_tz, utc_offset, t_call, t_updated, t_now>>
  /\ UNCHANGED <<mvars, fvars, dvars, hvars, nvars, svars, qvars, rvars, cvars, kvars>>

\* stock_api_service.py: now = timezone.now() (line 227), line 244
EvalMoversAge ==
  /\ t_call = "movers"
  /\ t_result = None
  /\ t_result' = Some(MoversTimeSinceUpdate(StoredDatetime(t_updated, use_tz, utc_offset),
                                            TimezoneNow(t_now, use_tz, utc_offset)))
  /\ UNCHANGED <<use_tz, utc_offset, t_call, t_updated, t_now>>
  /\ UNCHANGED <<mvars, fvars, dvars, hvars, nvars, svars, qvars, rvars, cvars, kvars>>

NextAge == EvalDetailsAge \/ EvalMoversAge

InitAgeOnly ==
  /\ InitAge
  /\ alpha_vantage_key = "demo"
  /\ InitNoRequest /\ InitNoPolicy /\ InitNoDetails
  /\ InitNoHistory /\ InitNoNews /\ InitNoSentiment /\ InitNoViews /\ InitNoStore
  /\ InitNoRace /\ InitNoSequence

SpecAge == InitAgeOnly /\ [][NextAge]_vars

(***************************************************************************)
(* Two requests processed one after the other: a stock-details request for *)
(* ticker 1 or a get_top_movers call with ticker 1 among its candidates,   *)
(* then, some time later, another of either kind.                          *)
(***************************************************************************)
SequenceTicker == 1
SequenceGaps == {1000, Window - 1, Window + 1}
SequenceResponses ==
  { Upstream(AVResponse("network", "", None, None, None),
             YahooResponse("network", None, None)),
    Upstream(AVGood, YahooGood),
    Upstream(AVResponse("quote", "150.00", Some(14800), None, None),
             YahooResponse("meta", Some(15000), None)) }
\* the settings explored: <<USE_TZ, UTC offset of TIME_ZONE>>
SequenceSettings ==
  { <<TRUE, 0>>, <<TRUE, 18000000>>, <<TRUE, -18000000>>, <<FALSE, 18000000>> }

InitSequence ==
  /\ InitLocals
  /\ limit = 1
  /\ alpha_vantage_key \in {"demo", "KEY"}
  /\ \E first \in { << >>, SequenceTicker :> OldRow } :
       db = first @@ [k \in {2, 3} |-> FixedFreshRow(k)]
  /\ responses = SequenceResponses
  /\ store_faults = {"none"}
  /\ \/ pc = "idle" /\ d_ticker = None
     \/ pc = "details" /\ d_ticker = Some(SequenceTicker)
  /\ d_existing = None
  /\ d_stock = None
  /\ d_up = None
  /\ d_quote = None
  /\ d_response = None
  /\ \E settings \in SequenceSettings : use_tz = settings[1] /\ utc_offset = settings[2]
  /\ InitNoAge
  /\ q_round = 1
  /\ q_start = Clock0
  /\ q_refreshed = << >>

\* the rows the finished request persisted from a quote with a positive price
Refreshed ==
  IF pc = "details_done"
  THEN IF /\ d_quote # None /\ Val(d_quote).kind = "quote"
          /\ Val(d_response).status = 200
          /\ Val(Val(d_stock).current_price) > 0
       THEN Val(d_ticker) :> db[Val(d_ticker)]
       ELSE << >>
  ELSE [t \in { u \in DOMAIN db : status[u] = "UPDATED" } |-> db[t]]

\* the first request has returned; after `gap` ms the second one arrives
NextRequest ==
  /\ q_round = 1
  /\ pc \in {"done", "failed", "details_done"}
  /\ q_round' = 2
  /\ q_refreshed' = Refreshed
  /\ \E gap \in SequenceGaps :
       /\ clock' = clock + gap
       /\ now' = clock + gap
       /\ q_start' = clock + gap
  /\ \/ pc' = "idle" /\ d_ticker' = None
     \/ pc' = "details" /\ d_ticker' = Some(SequenceTicker)
  /\ tickers_to_check' = << >>
  /\ db_stock_dict' = << >>
  /\ movers' = << >>
  /\ stocks_to_update' = << >>
  /\ i' = 0
  /\ result' = << >>
  /\ trace' = << >>
  /\ status' = [t \in Tickers |-> "NONE"]
  /\ outcome' = [t \in Tickers |-> "none"]
  /\ d_existing' = None
  /\ d_stock' = None
  /\ d_up' = None
  /\ d_quote' = None
  /\ d_response' = None
  /\ UNCHANGED <<alpha_vantage_key, db, responses, store_faults, limit>>
  /\ UNCHANGED <<fvars, hvars, nvars, svars, qvars, rvars, cvars, tvars>>

NextSequence ==
  Classify \/ RefreshStep \/ Finish \/ DetailsQuote \/ DetailsRespond \/ NextRequest

InitSequenceOnly ==
  /\ InitSequence
  /\ InitNoPolicy
  /\ InitNoHistory /\ InitNoNews /\ InitNoSentiment /\ InitNoViews /\ InitNoConcurrency

SpecSequence == InitSequenceOnly /\ [][NextSequence]_vars

(***************************************************************************)
(* Properties.                                                             *)
(***************************************************************************)
Range(seq) == { seq[k] : k \in 1..Len(seq) }
IsCall(e) == e.kind = "call"
IsSleep(e) == e.kind = "sleep"
IsCooldown(e) == e.kind = "sleep" /\ e.ms = DelayBetweenBatchesMs
Calls(tr) == SelectSeq(tr, IsCall)
CalledTickers(tr) == [k \in 1..Len(Calls(tr)) |-> Calls(tr)[k].ticker]
Candidates == Range(tickers_to_check)
Classified == pc \in {"refresh", "done", "failed"}
RefreshFailed(t) == outcome[t] \in {"network", "data", "store"}
MoverOf(t) == CHOOSE m \in Range(movers) : m.ticker = t
Served(t) == \E m \in Range(movers) : m.ticker = t
PositionOf(t) == CHOOSE k \in 1..Len(stocks_to_update) : stocks_to_update[k] = t

\* C1: failure isolation in get_top_movers.  Whatever each stale ticker runs
\* into (a quote, a network error, a data error, a failing store write), the
\* request never fails, the upstream is asked for exactly the stale tickers
\* attempted so far, in list order, and once the request has returned, every
\* ticker whose refresh went through is in the ranked set as UPDATED with the
\* price that was stored, no matter which tickers failed before it.
C1_FailureIsolation ==
  /\ pc # "failed"
  /\ Classified => CalledTickers(trace) = SubSeq(stocks_to_update, 1, i)
  /\ pc = "done" =>
       /\ CalledTickers(trace) = stocks_to_update
       /\ \A t \in Range(stocks_to_update) :
            outcome[t] = "ok" =>
              /\ status[t] = "UPDATED"
              /\ Served(t)
              /\ db[t].current_price = Some(MoverOf(t).current_price)

\* a ticker whose refresh failed, followed by a later ticker that was
\* refreshed and is in the returned list
C1_Witness ==
  /\ pc = "done"
  /\ \E a, b \in Range(stocks_to_update) :
       /\ PositionOf(a) < PositionOf(b)
       /\ RefreshFailed(a)
       /\ outcome[b] = "ok"
       /\ \E k \in 1..Len(result) : result[k].ticker = b

\* a row that can stand in for a failed refresh: price and change present
HasPersistedValue(t) ==
  /\ t \in DOMAIN db_stock_dict
  /\ Truthy(db_stock_dict[t].current_price)
  /\ ~IsNone(db_stock_dict[t].change_in_day)

\* C2: fallback substitution.  When the refresh of a stale ticker yields no
\* usable quote (the call raises, or the quote has a missing, zero or negative
\* price), the ticker is in the ranked set with its persisted price whenever a
\* persisted value exists, and is left out only when none exists.  A persisted
\* value is read here as a row with both a price and a change, the least the
\* ranking needs.
C2_FallbackSubstitution ==
  pc = "done" =>
    \A t \in Range(stocks_to_update) :
      outcome[t] \in {"network", "data", "unusable"} =>
        IF HasPersistedValue(t)
        THEN /\ status[t] = "FALLBACK"
             /\ Served(t)
             /\ MoverOf(t).current_price = Val(db_stock_dict[t].current_price)
        ELSE status[t] = "DROPPED" /\ ~Served(t)

\* the freshness the claim names: price and change present, updated less than
\* the window ago
ClaimFresh(t) ==
  /\ t \in DOMAIN db_stock_dict
  /\ Truthy(db_stock_dict[t].current_price)
  /\ ~IsNone(db_stock_dict[t].change_in_day)
  /\ ~IsNone(db_stock_dict[t].updated_at)
  /\ now - Val(db_stock_dict[t].updated_at) < CacheDurationMs

\* C3: FRESH bypass.  No upstream call is ever issued for a candidate whose
\* persisted row is fresh; such a ticker is in the ranked set with the
\* persisted price; and when the request has returned, the tickers the
\* upstream was asked for are exactly the stale candidates.
C3_FreshBypass ==
  Classified =>
    /\ \A k \in 1..Len(trace) :
         IsCall(trace[k]) =>
           trace[k].ticker \in Candidates /\ ~ClaimFresh(trace[k].ticker)
    /\ \A t \in Candidates :
         ClaimFresh(t) =>
           /\ status[t] = "FRESH"
           /\ Served(t)
           /\ MoverOf(t).current_price = Val(db_stock_dict[t].current_price)
    /\ pc = "done" =>
         Range(CalledTickers(trace)) = { t \in Candidates : ~ClaimFresh(t) }

\* a returned request with a fresh candidate and a refreshed stale one
C3_Witness ==
  /\ pc = "done"
  /\ \E t \in Candidates : ClaimFresh(t)
  /\ \E t \in Candidates : ~ClaimFresh(t) /\ t \in Range(CalledTickers(trace))

\* the longest run of upstream calls with no cooldown in between
RECURSIVE MaxBurst(_, _, _)
MaxBurst(tr, run, best) ==
  IF tr = << >> THEN best
  ELSE IF IsCall(Head(tr))
       THEN MaxBurst(Tail(tr), run + 1, IF run + 1 > best THEN run + 1 ELSE best)
       ELSE IF IsCooldown(Head(tr)) THEN MaxBurst(Tail(tr), 0, best)
       ELSE MaxBurst(Tail(tr), run, best)

\* C4: the upstream quota is respected.  No more than 5 upstream quote calls
\* are issued without a 12 s cooldown in between, whatever mix of tickers
\* succeeds and fails.
C4_QuotaRespected == MaxBurst(trace, 0, 0) <= MaxConcurrent

\* the number of calls among the first k events of the trace that returned a quote
SuccessesUpTo(k) ==
  Cardinality({ j \in 1..k : IsCall(trace[j]) /\ ~trace[j].failed })

\* C5: pacing rule.  After the call that is the 5th, 10th, ... successful one
\* a 12 s cooldown follows at once when more tickers remain; after every other
\* call but the last a 0.5 s delay follows; so exactly one delay separates two
\* consecutive calls and none follows the last ticker.
C5_PacingRule ==
  pc = "done" =>
    \A k \in 1..Len(trace) :
      /\ IsCall(trace[k]) =>
           IF trace[k].ticker = stocks_to_update[Len(stocks_to_update)]
           THEN k = Len(trace)
           ELSE /\ k < Len(trace)
                /\ IsSleep(trace[k + 1])
                /\ trace[k + 1].ms =
                     IF ~trace[k].failed /\ SuccessesUpTo(k) % MaxConcurrent = 0
                     THEN DelayBetweenBatchesMs
                     ELSE SmallDelayMs
      /\ IsSleep(trace[k]) => k > 1 /\ IsCall(trace[k - 1])

\* C6: a batch of k stale tickers takes floor((k - 1) / 5) cooldowns, one after
\* each item whose position is a multiple of 5 and that is not the last: 2 for
\* a batch of 12, after items 5 and 10.
C6_CooldownCount ==
  (pc = "done" /\ stocks_to_update # << >>) =>
    LET n == Len(stocks_to_update)
        cooled == { PositionOf(trace[k].ticker) : k \in { j \in 1..Len(trace) : IsCooldown(trace[j]) } }
    IN /\ cooled = { p \in 1..(n - 1) : p % MaxConcurrent = 0 }
       /\ Cardinality(cooled) = (n - 1) \div MaxConcurrent
       /\ Cardinality({ j \in 1..Len(trace) : IsCooldown(trace[j]) }) = Cardinality(cooled)

ServedStatuses == {"FRESH", "UPDATED", "FALLBACK"}

C9_MoversUsePolicy ==
  Classified =>
    \A t \in Candidates :
      (t \in Range(stocks_to_update)) <=>
        (t \notin DOMAIN db_stock_dict \/ ShouldUpdateStockQuote(db_stock_dict[t], now))

\* C10: provider fallback chain.  A failed call to the primary provider is
\* followed at once by a call to the free fallback provider for the same
\* ticker, before the failure reaches the caller.
C10_ProviderFallback ==
  \A k \in 1..Len(trace) :
    (IsCall(trace[k]) /\ trace[k].provider = "alpha_vantage" /\ trace[k].failed) =>
      /\ k < Len(trace)
      /\ IsCall(trace[k + 1])
      /\ trace[k + 1].provider = "yahoo"
      /\ trace[k + 1].ticker = trace[k].ticker


\* the provider and payload figures behind the quote of a stock-details request
QuotedProvider == IF alpha_vantage_key # "demo" THEN "alpha_vantage" ELSE "yahoo"
QuoteReturned == d_quote # None /\ Val(d_quote).kind = "quote"
QuoteRaised == d_quote # None /\ Val(d_quote).kind = "raise"
PayloadPrice ==
  IF QuotedProvider = "alpha_vantage" THEN DecimalOf(Val(d_up).av.price_str)
  ELSE Val(Val(d_up).yahoo.price)
PayloadPreviousClose ==
  IF QuotedProvider = "alpha_vantage" THEN Val(d_up).av.prev ELSE Val(d_up).yahoo.prev

\* C11: no same-provider retry.  Within one request (get_top_movers or
\* stock-details) no two upstream quote calls go to the same provider for the
\* same ticker, whether the first of them failed or not.
C11_NoSameProviderRetry ==
  \A k, l \in 1..Len(trace) :
    (k < l /\ IsCall(trace[k]) /\ IsCall(trace[l]) /\ trace[k].ticker = trace[l].ticker)
      => trace[k].provider # trace[l].provider

\* a finished request in which a call failed and another ticker was called after it
C11_Witness ==
  /\ pc = "done"
  /\ \E k, l \in 1..Len(trace) :
       /\ k < l
       /\ IsCall(trace[k]) /\ trace[k].failed
       /\ IsCall(trace[l]) /\ trace[l].ticker # trace[k].ticker

\* C12: stale-cache fallback of stock-details.  When the quote call of a
\* stock-details request fails and the ticker had a persisted price, the
\* response is a 200 carrying the persisted price and change; a 500 after a
\* failed quote call is returned only when there was no persisted price.
C12_StaleCacheFallback ==
  (pc = "details_done" /\ QuoteRaised) =>
    IF d_existing # None /\ Truthy(Val(d_existing).current_price)
    THEN /\ Val(d_response).status = 200
         /\ Val(d_response).price = Val(Val(d_existing).current_price)
         /\ Val(d_response).changeInDay = FloatOrZero(Val(d_existing).change_in_day)
    ELSE Val(d_response).status = 500

\* C13: malformed quote payloads are rejected.  Whatever the provider, a
\* quote that get_stock_quote returns has a strictly positive current_price,
\* and so has every price a stock-details request persists from it.
C13_MalformedRejected ==
  QuoteReturned =>
    /\ Val(d_quote).current_price > 0
    /\ (pc = "details_quoted" =>
          Truthy(db[Val(d_ticker)].current_price)
          /\ Val(db[Val(d_ticker)].current_price) > 0)

\* C14: quote normalization.  A returned quote has change = current_price -
\* previous_close and change_percent = change / previous_close * 100, and
\* change_percent = 0 when previous_close <= 0; a payload without a previous
\* close has both at 0.
C14_QuoteNormalized ==
  QuoteReturned =>
    LET quote == Val(d_quote)
        previous_close == IF IsNone(PayloadPreviousClose) THEN PayloadPrice
                          ELSE Val(PayloadPreviousClose)
    IN /\ quote.current_price = PayloadPrice
       /\ quote.change = PayloadPrice - previous_close
       /\ quote.change_percent = IF previous_close > 0
                                 THEN PercentOf(quote.change, previous_close)
                                 ELSE 0

\* C15: history normalization.  For either provider and any upstream series,
\* every entry get_price_history returns comes from a series entry with a
\* non-null close, and the entries are in ascending order of date.
C15_HistoryNormalized ==
  h_result # None =>
    LET history == Val(h_result)
    IN /\ \A k \in 1..Len(history) :
            \E e \in Range(h_payload.series) :
              e.date = history[k].date /\ e.close = Some(history[k].price)
       /\ \A k, l \in 1..Len(history) : k < l => history[k].date <= history[l].date


\* the articles of s whose title no earlier article of s has, in the order of s
FirstOccurrences(s) ==
  LET idx == SelectSeq([k \in 1..Len(s) |-> k],
                       LAMBDA k : \A j \in 1..(k - 1) : s[j].title # s[k].title)
  IN [k \in 1..Len(idx) |-> s[idx[k]]]

Labels == {"Bullish", "Bearish", "Neutral"}
Analyzed == s_call = "analyze_sentiment" /\ s_result # None
HeuristicApplied == s_call = "simple_algorithm" /\ s_result # None

\* C17: empty or whitespace-only text is Neutral.  analyze_sentiment returns
\* Neutral for the empty text and for every text made of whitespace only, in
\* every configuration and whatever the classifiers answer.
C17_BlankIsNeutral ==
  (Analyzed /\ IsBlank(s_text)) => Val(s_result).sentiment = "Neutral"

\* C18: classifier failure falls back to the keyword heuristic.  When the
\* FinBERT model fails to load or to run on a non-empty text, the label
\* analyze_sentiment returns is the label of the keyword heuristic for that text.
C18_FailureUsesHeuristic ==
  (Analyzed /\ s_text # << >> /\ s_finbert # None /\ Val(s_finbert).kind = "raise") =>
    Val(s_result).sentiment = AnalyzeWithSimpleAlgorithm(s_text).sentiment

\* C19: margin-of-1 rule.  The keyword heuristic returns Bullish iff
\* bullish_count > bearish_count + 1, Bearish iff bearish_count >
\* bullish_count + 1 and Neutral otherwise; the text "Stock surges on strong
\* earnings beat" has bullish_count 3, bearish_count 0 and is Bullish.
C19_MarginOfOne ==
  HeuristicApplied =>
    LET r == Val(s_result)
    IN /\ (r.sentiment = "Bullish") <=> (r.bullish_count > r.bearish_count + 1)
       /\ (r.sentiment = "Bearish") <=> (r.bearish_count > r.bullish_count + 1)
       /\ (r.sentiment = "Neutral") <=>
            (Abs(r.bullish_count - r.bearish_count) <= 1)
       /\ s_text = ExampleText =>
            r.bullish_count = 3 /\ r.bearish_count = 0 /\ r.sentiment = "Bullish"

\* a lead of exactly one keyword, with keywords of both kinds in the text
C19_Witness ==
  /\ HeuristicApplied
  /\ Val(s_result).bullish_count = 2
  /\ Val(s_result).bearish_count = 1
  /\ Val(s_result).sentiment = "Neutral"

\* C20: closed label set.  On every path analyze_sentiment returns one of
\* Bullish, Bearish, Neutral; a class index outside LABEL_MAP and an answer
\* of the external classifier outside the three labels both give Neutral.
C20_ClosedLabelSet ==
  Analyzed =>
    LET r == Val(s_result)
    IN /\ r.sentiment \in Labels
       /\ (r.path = "finbert" /\ Val(s_finbert).kind = "class"
           /\ Val(s_finbert).index \notin 0..2) => r.sentiment = "Neutral"
       /\ (r.path \in {"openai", "openai_retry"}
           /\ LET answer == s_openai[Len(s_openai)]
              IN answer.kind = "content"
                 /\ (answer.words = << >> \/ answer.words[1] \notin Labels))
            => r.sentiment = "Neutral"

\* FinBERT predicted a class index that LABEL_MAP does not have
C20_Witness ==
  /\ Analyzed
  /\ ~IsBlank(s_text)
  /\ Val(s_result).path = "finbert"
  /\ Val(s_finbert).kind = "class"
  /\ Val(s_finbert).index = 3

(***************************************************************************)
(* News buzz                                                               *)
(***************************************************************************)
BuzzReturned == b_call \in {"view", "service"} /\ b_result # None
RawCount(t) == (CHOOSE r \in Range(b_counts) : r.ticker = t).news_count
InputPosition(t) == CHOOSE k \in 1..Len(b_counts) : b_counts[k].ticker = t
\* the largest raw count of the run: it is the view's normalizer, and it is at
\* most 10 in the service, whose divisor is the constant 10
Normalizer ==
  CHOOSE n \in { r.news_count : r \in Range(b_counts) } \cup {0} :
    \A r \in Range(b_counts) : r.news_count <= n
\* the tickers that take part in the ranking
Ranked ==
  { r.ticker : r \in { x \in Range(b_counts) : b_call = "view" \/ x.news_count # 0 } }
\* score is the millionth nearest to min(raw_count / max(normalizer, 10), 0.999999)
IsBuzzScore(score, raw_count, normalizer) ==
  LET divisor == IF normalizer > 10 THEN normalizer ELSE 10
  IN IF raw_count * 1000000 >= 999999 * divisor
     THEN score = 999999
     ELSE 2 * Abs(score * divisor - raw_count * 1000000) <= divisor

\* C21: every score returned by the news-buzz view and by get_news_buzz is
\* min(raw_count / max(normalizer, 10), 0.999999) rounded to six places, lies
\* in [0, 0.999999], and does not decrease when the raw count grows under the
\* same normalizer.
C21_BuzzScoreFormula ==
  BuzzReturned =>
    LET r == Val(b_result)
    IN /\ \A k \in 1..Len(r) :
            /\ IsBuzzScore(r[k].score, RawCount(r[k].ticker), Normalizer)
            /\ 0 <= r[k].score /\ r[k].score <= 999999
       /\ \A j, k \in 1..Len(r) :
            RawCount(r[j].ticker) <= RawCount(r[k].ticker) => r[j].score <= r[k].score

\* the view has ranked a ticker at the cap above one strictly between 0 and the
\* cap, under a normalizer above the floor of 10
C21_Witness ==
  /\ BuzzReturned /\ b_call = "view"
  /\ Normalizer > 10
  /\ \E j, k \in 1..Len(Val(b_result)) :
       /\ Val(b_result)[j].score = 999999
       /\ Val(b_result)[k].score > 0 /\ Val(b_result)[k].score < 999999
       /\ RawCount(Val(b_result)[k].ticker) < RawCount(Val(b_result)[j].ticker)

\* the score of a ranked ticker
ScoreOf(t) ==
  IF b_call = "view" THEN ViewBuzzData(b_counts)[InputPosition(t)].score
  ELSE CappedQuotient(RawCount(t), BuzzFloor)
\* entry a stands before entry b in the stable descending order
Precedes(sa, pa, sb, pb) == sa > sb \/ (sa = sb /\ pa < pb)

\* C22: the news-buzz result is ordered by non-increasing score, tickers of
\* equal score keep their input order, and the result is the first `limit`
\* entries of that order.
C22_BuzzRanking ==
  BuzzReturned =>
    LET r == Val(b_result)
        returned == { r[k].ticker : k \in 1..Len(r) }
    IN /\ Len(r) = Min(b_limit, Cardinality(Ranked))
       /\ \A k \in 1..Len(r) : r[k].ticker \in Ranked /\ r[k].score = ScoreOf(r[k].ticker)
       /\ \A j, k \in 1..Len(r) :
            j < k => Precedes(r[j].score, InputPosition(r[j].ticker),
                              r[k].score, InputPosition(r[k].ticker))
       /\ \A t \in Ranked \ returned : \A k \in 1..Len(r) :
            Precedes(r[k].score, InputPosition(r[k].ticker), ScoreOf(t), InputPosition(t))

\* three tickers of one score, listed in an order that is not the order of their
\* symbols, and a limit that cuts the tie
C22_Witness ==
  /\ BuzzReturned
  /\ Len(Val(b_result)) = 2 /\ Cardinality(Ranked) = 3
  /\ \A t \in Ranked : ScoreOf(t) = Val(b_result)[1].score
  /\ Val(b_result)[1].ticker > Val(b_result)[2].ticker

(***************************************************************************)
(* Sentiment movers                                                        *)
(***************************************************************************)
\* the analyzed articles of ticker t with the given label and a date in from..to
Analyzed3(t, from, to, label) ==
  SumCopies({ r \in sm_news : /\ r.ticker = t /\ r.sentiment_analyzed
                              /\ r.sentiment = label /\ r.date >= from /\ r.date <= to })
NowCount(t, label) == Analyzed3(t, MoversToday - 1, MoversToday, label)
PrevCount(t, label) == Analyzed3(t, MoversToday - 7, MoversToday - 2, label)
NowTotal(t) == NowCount(t, "Bullish") + NowCount(t, "Bearish") + NowCount(t, "Neutral")
PrevTotal(t) == PrevCount(t, "Bullish") + PrevCount(t, "Bearish") + PrevCount(t, "Neutral")
\* (bullish - bearish) / total * 100 with the fraction dropped
TruncatedScore(bullish, bearish, total) ==
  IF bullish >= bearish THEN ((bullish - bearish) * 100) \div total
  ELSE -(((bearish - bullish) * 100) \div total)

\* C23: a returned ticker has analyzed articles in the current window, its
\* sentiment_score is (bullish - bearish) / total * 100 truncated to an integer
\* and lies in [-100, 100]; its change is sentiment_score minus the score of the
\* previous window when that window has analyzed articles, and 0 otherwise;
\* 6/2/2 now against 2/6/2 before gives 40 and 80.
C23_SentimentMoverScore ==
  sm_result # None =>
    \A k \in 1..Len(Val(sm_result)) :
      LET e == Val(sm_result)[k]
          t == e.ticker
      IN /\ NowTotal(t) > 0
         /\ e.sentiment_score =
              TruncatedScore(NowCount(t, "Bullish"), NowCount(t, "Bearish"), NowTotal(t))
         /\ e.sentiment_score >= -100 /\ e.sentiment_score <= 100
         /\ e.change =
              IF PrevTotal(t) > 0
              THEN e.sentiment_score
                     - TruncatedScore(PrevCount(t, "Bullish"), PrevCount(t, "Bearish"),
                                      PrevTotal(t))
              ELSE 0

(***************************************************************************)
(* Price history store                                                     *)
(***************************************************************************)
StoreQuiet == \A p \in Requests : r_pc[p] = "done"

C25_AppendOnly ==
  [][\A r \in ph : \E s \in ph' :
       /\ s.stock = r.stock /\ s.date = r.date
       /\ s.price = r.price /\ s.volume = r.volume]_vars

(***************************************************************************)
(* Concurrent refresh of one ticker                                        *)
(***************************************************************************)
Saves == SelectSeq(c_log, LAMBDA e : e.kind = "save")
LastWriter == Saves[Len(Saves)].p
Called(p) == \E k \in 1..Len(c_log) : c_log[k] = CallBy(p)
Saved(p) == \E k \in 1..Len(c_log) : c_log[k] = SaveBy(p)

\* C26: two requests that process the same stale ticker may both issue an
\* upstream quote call for it, and once a save has happened the persisted
\* record is the one written by the last save: current_price and change_in_day
\* both come from the quote of that writer, never one from each.
C26_LastWriteWins ==
  Saves # << >> =>
    /\ RaceTicker \in DOMAIN db
    /\ db[RaceTicker].current_price = Some(Val(c_quote[LastWriter]).current_price)
    /\ db[RaceTicker].change_in_day = Some(Val(c_quote[LastWriter]).change_percent)

\* both requests called the upstream before either saved, got different quotes,
\* and both have saved
C26_Witness ==
  /\ \A p \in Requests : c_pc[p] = "done" /\ Saved(p)
  /\ c_log[1].kind = "call" /\ c_log[2].kind = "call"
  /\ c_quote[1] # c_quote[2]

(***************************************************************************)
(* Timezones in the freshness tests                                        *)
(***************************************************************************)
\* C27: whatever is naive or aware among last_update and now, both freshness
\* evaluations subtract in one timezone representation: the subtraction does
\* not raise and the computed age is the elapsed time.
C27_AgeIsElapsedTime ==
  t_result # None =>
    /\ Val(t_result).kind = "delta"
    /\ Val(t_result).ms = t_now - t_updated

(***************************************************************************)
(* Quote cache window                                                      *)
(***************************************************************************)
\* ticker t was refreshed by the first request, less than an hour before the
\* second one arrived
InCacheWindow(t) ==
  /\ q_round = 2
  /\ t \in DOMAIN q_refreshed
  /\ q_start - Val(q_refreshed[t].updated_at) < Window

\* C28: once a request has refreshed a ticker's quote with a positive price,
\* a request processed less than one hour later (stock-details for the ticker,
\* or top-movers with it as a candidate) issues no upstream quote call for it
\* and serves the persisted values.
C28_CacheWindow ==
  \A t \in Tickers :
    InCacheWindow(t) =>
      /\ \A k \in 1..Len(trace) : IsCall(trace[k]) => trace[k].ticker # t
      /\ db[t] = q_refreshed[t]
      /\ (pc = "details_done" /\ d_ticker = Some(t)) =>
           /\ Val(d_response).status = 200
           /\ Val(d_response).price = Val(q_refreshed[t].current_price)
           /\ Val(d_response).changeInDay = FloatOrZero(q_refreshed[t].change_in_day)
      /\ (pc \in {"refresh", "done"} /\ t \in Candidates) =>
           /\ status[t] = "FRESH"
           /\ \A k \in 1..Len(result) :
                result[k].ticker = t =>
                  result[k].current_price = Val(q_refreshed[t].current_price)

(***************************************************************************)
(* Missing ticker and failures of a stock-details request                  *)
(***************************************************************************)
\* C29: a stock-details request without a ticker (absent or empty) is answered
\* with status 400 and an error body, writes nothing to the store and calls no
\* upstream; a request with a ticker that fails before the end of the handler
\* is answered with status 500 and an error body.
C29_MissingTicker ==
  [][(pc = "details" /\ pc' = "details_done") =>
       IF IsNone(d_ticker)
       THEN /\ Val(d_response').status = 400
            /\ Val(d_response').error # ""
            /\ db' = db
            /\ trace' = trace
       ELSE /\ Val(d_response').status = 500
            /\ Val(d_response').error \in {"store", "network", "data"}]_vars

\* a request without a ticker has been answered while the store holds rows
C29_Witness ==
  /\ pc = "details_done"
  /\ IsNone(d_ticker)
  /\ Val(d_response).status = 400
  /\ DOMAIN db # {}

(***************************************************************************)
(* The unit of `change` in top movers                                      *)
(***************************************************************************)
\* (change_percent / 100) * current_price of a row, in millionths
DollarChange(row) == Val(row.change_in_day) * Val(row.current_price)

\* C30: every entry get_top_movers returns carries `change` as the absolute
\* dollar change of the ticker: for an entry served from the persisted record,
\* fresh or as a fallback, it is change_percent / 100 * current_price of that
\* record (an UPDATED entry carries the dollar change of its quote).
C30_ChangeInDollars ==
  pc = "done" =>
    \A k \in 1..Len(result) :
      status[result[k].ticker] \in {"FRESH", "FALLBACK"} =>
        result[k].change = DollarChange(db_stock_dict[result[k].ticker])

(***************************************************************************)
(* The store after a refresh                                               *)
(***************************************************************************)
\* the column of the row of ticker t before the step, None when t has no row
OldColumn(t, column) == IF t \in DOMAIN db THEN db[t][column] ELSE None

\* the step marks ticker t UPDATED
BecomesUpdated(t) == status[t] # "UPDATED" /\ status'[t] = "UPDATED"

\* the row of t after the step holds quote q over what it held before
PersistedFrom(t, q) ==
  /\ db'[t].current_price = Some(q.current_price)
  /\ db'[t].change_in_day = Some(q.change_percent)
  /\ db'[t].volume = IF Truthy(q.volume) THEN q.volume ELSE OldColumn(t, "volume")
  /\ db'[t].market_cap =
       IF Truthy(q.market_cap) THEN q.market_cap ELSE OldColumn(t, "market_cap")

\* C31: when get_top_movers marks a ticker UPDATED, the upstream answered a quote
\* such that the ticker's row holds the quote's price and change_percent, holds
\* the quote's volume and market_cap where the quote carries one and the former
\* values where it does not, every other row is as it was, and the entry
\* appended to movers is the ticker's with the persisted price.
C31_RefreshEffect ==
  [][\A t \in Tickers :
       BecomesUpdated(t) =>
         /\ t \in DOMAIN db'
         /\ \E up \in responses :
              LET q == GetStockQuote(alpha_vantage_key, up).result
              IN q.kind = "quote" /\ PersistedFrom(t, q)
         /\ DOMAIN db' = DOMAIN db \cup {t}
         /\ \A u \in DOMAIN db \ {t} : db'[u] = db[u]
         /\ Len(movers') = Len(movers) + 1
         /\ movers'[Len(movers')].ticker = t
         /\ Some(movers'[Len(movers')].current_price) = db'[t].current_price]_vars

\* an UPDATED ticker whose row kept its volume and market_cap (the quote had
\* none) next to one whose volume the quote overwrote
C31_Witness ==
  /\ pc = "done"
  /\ \E t \in Tickers :
       /\ status[t] = "UPDATED"
       /\ db[t].current_price = Some(5000)
       /\ db[t].volume = Some(700)
       /\ db[t].market_cap = Some(900)
  /\ \E t \in Tickers :
       /\ status[t] = "UPDATED"
       /\ db[t].volume = Some(1000)

(***************************************************************************)
(* The store after a failed refresh                                        *)
(***************************************************************************)
\* the upstream quote call of get_top_movers for ticker t failed
UpstreamFailed(t) == outcome[t] \in {"network", "data"}

\* the row of ticker t is what it was when the request read it: the same row, or
\* no row if it had none
RowAsBefore(t, before) ==
  IF before = None THEN t \notin DOMAIN db
  ELSE t \in DOMAIN db /\ db[t] = Val(before)

\* the part of C32 about get_top_movers
MoversKeepStore ==
  \A t \in Tickers :
    UpstreamFailed(t) =>
      RowAsBefore(t, IF t \in DOMAIN db_stock_dict THEN Some(db_stock_dict[t]) ELSE None)

\* C32: a failed refresh leaves the store unchanged.  When the upstream quote
\* call for a ticker fails, the ticker's row is what it was before the request,
\* in get_top_movers and in stock-details; a ticker without a row has none
\* afterwards.
C32_FailedRefreshKeepsStore ==
  /\ MoversKeepStore
  /\ QuoteRaised => RowAsBefore(Val(d_ticker), d_existing)

(***************************************************************************)
(* News providers                                                          *)
(***************************************************************************)
Asked(provider) == provider \in Range(n_calls)

\* C33: news provider fallback.  get_news_for_ticker returns a list whatever
\* the providers do, and a failing provider does not keep the later ones from
\* being asked: NewsAPI is asked when its key is set, Alpha Vantage when its key
\* is set, in that order, and Twitter only after them and only with a token.
C33_NewsFallback ==
  n_result # None =>
    /\ Asked("newsapi") <=> n_news_api_key
    /\ Asked("alpha_vantage") <=> alpha_vantage_key # "demo"
    /\ Asked("twitter") => n_twitter_bearer_token
    /\ \A k, l \in 1..Len(n_calls) :
         k < l => /\ n_calls[k] # "twitter"
                  /\ n_calls[l] # "newsapi"
                  /\ n_calls[k] # n_calls[l]

(***************************************************************************)
(* Keyword counting                                                        *)
(***************************************************************************)
\* the number of places of text where keyword occurs
Occurrences(text, keyword) ==
  Cardinality({ k \in 1..(Len(text) - Len(keyword) + 1) :
                  SubSeq(text, k, k + Len(keyword) - 1) = keyword })

RECURSIVE SumOccurrences(_, _)
\* the occurrences in text of the keywords of a set, added up
SumOccurrences(text, keywords) ==
  IF keywords = {} THEN 0
  ELSE LET kw == CHOOSE w \in keywords : TRUE
       IN Occurrences(text, kw) + SumOccurrences(text, keywords \ {kw})

UpperChar(c) ==
  IF \E k \in 1..Len(LowerCase) : LowerCase[k] = c
  THEN UpperCase[CHOOSE k \in 1..Len(LowerCase) : LowerCase[k] = c]
  ELSE c
Upper(text) == [k \in 1..Len(text) |-> UpperChar(text[k])]

\* C34: keyword counting in the heuristic.  bullish_count and bearish_count
\* are the numbers of occurrences, letter case ignored, of the keywords of the
\* bullish and of the bearish set in the text (a keyword occurring k times adds
\* k), and the label of a text is the label of its upper-case and of its
\* lower-case form.
C34_KeywordOccurrences ==
  HeuristicApplied =>
    LET r == Val(s_result)
    IN /\ r.bullish_count = SumOccurrences(Lower(s_text), Range(BullishKeywords))
       /\ r.bearish_count = SumOccurrences(Lower(s_text), Range(BearishKeywords))
       /\ r.sentiment = AnalyzeWithSimpleAlgorithm(Upper(s_text)).sentiment
       /\ r.sentiment = AnalyzeWithSimpleAlgorithm(Lower(s_text)).sentiment

(***************************************************************************)
(* Candidates of get_top_movers                                            *)
(***************************************************************************)
\* no ticker has two entries in the list
OnePerTicker(list) ==
  \A k, l \in 1..Len(list) : k # l => list[k].ticker # list[l].ticker

\* C35: candidate set and uniqueness.  The candidates are the first 3 * limit
\* tickers of the popular list when 3 * limit is at most its length and the
\* whole list otherwise; every entry of movers and of the result is for a
\* candidate, no ticker has two entries, and a ticker served from the
\* database is not among those refreshed.
C35_CandidatesOnce ==
  Classified =>
    /\ tickers_to_check =
         [k \in 1..(IF 3 * limit <= NPopular THEN 3 * limit ELSE NPopular) |->
            PopularTickers[k]]
    /\ \A k \in 1..Len(movers) : movers[k].ticker \in Candidates
    /\ OnePerTicker(movers)
    /\ \A t \in Candidates :
         status[t] = "FRESH" => t \notin Range(stocks_to_update)
    /\ \A t \in Range(CalledTickers(trace)) : status[t] # "FRESH"
    /\ pc = "done" =>
         /\ \A k \in 1..Len(result) : result[k].ticker \in Candidates
         /\ OnePerTicker(result)

\* a returned request whose limit exceeds a third of the list, with a
\* refreshed candidate and fresh tickers in the result
C35_Witness ==
  /\ pc = "done"
  /\ 3 * limit > NPopular
  /\ Len(tickers_to_check) = NPopular
  /\ \E t \in Candidates : status[t] = "UPDATED" /\ Served(t)
  /\ Len(result) = limit
  /\ \E k \in 1..Len(result) : status[result[k].ticker] = "FRESH"

(***************************************************************************)
(* The windows of the sentiment movers                                     *)
(***************************************************************************)
\* the rows the view counts for ticker t in its current and in its previous window
CurrentWindow(t) == RecentNews(sm_news, t, MoversToday - 1)
PreviousWindow(t) == PreviousNews(sm_news, t, MoversToday - 7, MoversToday - 1)

FetchedAndStored(p) ==
  /\ r_pc[p] = "done"
  /\ r_missing[p] # {}
  /\ r_response[p] = Some(200)
  /\ r_data[p] # << >>
  /\ \A k \in 1..Len(r_data[p]) : Matching(ph, StoreStock, r_data[p][k].date) # {}

\* request q computes its missing dates in this step
ReadsNow(q) == r_pc[q] = "read" /\ r_pc'[q] # "read"

\* C37: the history refetch converges.  A stock-details request that reads the
\* stored history after another one for the same ticker and day has fetched the
\* history and stored what the upstream returned finds nothing missing and
\* issues no upstream history call.
C37_RefetchConverges ==
  [][\A p, q \in Requests :
       (p # q /\ FetchedAndStored(p) /\ ReadsNow(q)) => r_pc'[q] = "done"]_vars

====
